---------------------------- MODULE Spec2Model ----------------------------
(***************************************************************************)
(* A model of hpp2plantuml's Diagram engine                                *)
(* (src/src/hpp2plantuml/hpp2plantuml.py).                                 *)
(*                                                                         *)
(* Text is modelled as a sequence of one-character strings, so that the    *)
(* regular-expression searches, the substring tests and the ordinal        *)
(* comparisons of the code are computed character by character.            *)
(***************************************************************************)
EXTENDS Integers, Sequences, FiniteSets, TLC

(***************************************************************************)
(* Bounds of the exploration.                                              *)
(***************************************************************************)
\* number of header texts ingested since the Diagram was last empty; also the
\* longest file list / string list one call is given
MaxLog == 2

(***************************************************************************)
(* Python values.                                                          *)
(***************************************************************************)
\* Python's None, where the code stores None in a slot that otherwise holds
\* text; no text equals it (every element of a text is one character).
None == <<"None">>

\* Python truthiness of a text-or-None value
Truthy(x) == x # None /\ x # <<>>

\* the code points of the characters texts are written in
OrdTable ==
  ("\t" :> 9) @@ ("\n" :> 10) @@ ("\r" :> 13) @@ (" " :> 32) @@
  ("&" :> 38) @@ ("(" :> 40) @@ (")" :> 41) @@ ("*" :> 42) @@ ("," :> 44) @@
  ("-" :> 45) @@ ("." :> 46) @@ ("0" :> 48) @@ ("1" :> 49) @@ ("2" :> 50) @@
  ("3" :> 51) @@ ("4" :> 52) @@ ("5" :> 53) @@ ("6" :> 54) @@ ("7" :> 55) @@
  ("8" :> 56) @@ ("9" :> 57) @@ (":" :> 58) @@ ("<" :> 60) @@ (">" :> 62) @@
  ("A" :> 65) @@ ("B" :> 66) @@ ("C" :> 67) @@ ("D" :> 68) @@ ("E" :> 69) @@
  ("F" :> 70) @@ ("G" :> 71) @@ ("H" :> 72) @@ ("I" :> 73) @@ ("J" :> 74) @@
  ("K" :> 75) @@ ("L" :> 76) @@ ("M" :> 77) @@ ("N" :> 78) @@ ("O" :> 79) @@
  ("P" :> 80) @@ ("Q" :> 81) @@ ("R" :> 82) @@ ("S" :> 83) @@ ("T" :> 84) @@
  ("U" :> 85) @@ ("V" :> 86) @@ ("W" :> 87) @@ ("X" :> 88) @@ ("Y" :> 89) @@
  ("Z" :> 90) @@ ("[" :> 91) @@ ("]" :> 93) @@ ("_" :> 95) @@ ("a" :> 97) @@
  ("b" :> 98) @@ ("c" :> 99) @@ ("d" :> 100) @@ ("e" :> 101) @@
  ("f" :> 102) @@ ("g" :> 103) @@ ("h" :> 104) @@ ("i" :> 105) @@
  ("j" :> 106) @@ ("k" :> 107) @@ ("l" :> 108) @@ ("m" :> 109) @@
  ("n" :> 110) @@ ("o" :> 111) @@ ("p" :> 112) @@ ("q" :> 113) @@
  ("r" :> 114) @@ ("s" :> 115) @@ ("t" :> 116) @@ ("u" :> 117) @@
  ("v" :> 118) @@ ("w" :> 119) @@ ("x" :> 120) @@ ("y" :> 121) @@
  ("z" :> 122) @@ ("{" :> 123) @@ ("|" :> 124) @@ ("}" :> 125) @@ ("~" :> 126)

\* ord(c)
Ord(c) == OrdTable[c]

\* regex \w
IsWordChar(c) ==
  \/ Ord(c) >= 48 /\ Ord(c) <= 57
  \/ Ord(c) >= 65 /\ Ord(c) <= 90
  \/ Ord(c) >= 97 /\ Ord(c) <= 122
  \/ c = "_"

\* regex \s
IsSpace(c) == c \in {" ", "\t", "\n", "\r"}

\* str < str : ordinal, lexicographic
RECURSIVE StrLt(_, _)
StrLt(a, b) ==
  IF b = <<>> THEN FALSE
  ELSE IF a = <<>> THEN TRUE
  ELSE IF Ord(Head(a)) # Ord(Head(b)) THEN Ord(Head(a)) < Ord(Head(b))
  ELSE StrLt(Tail(a), Tail(b))

\* tuple < tuple, for tuples of texts (a bare text key is a 1-tuple here)
RECURSIVE KeyLt(_, _)
KeyLt(k1, k2) ==
  IF k2 = <<>> THEN FALSE
  ELSE IF k1 = <<>> THEN TRUE
  ELSE IF Head(k1) # Head(k2) THEN StrLt(Head(k1), Head(k2))
  ELSE KeyLt(Tail(k1), Tail(k2))

\* pat occurs in s at index i
MatchAt(pat, s, i) ==
  /\ i >= 1
  /\ i + Len(pat) - 1 <= Len(s)
  /\ SubSeq(s, i, i + Len(pat) - 1) = pat

\* Python `pat in s`; also re.search(pat, s) for a pattern without
\* metacharacters (entity names are identifiers joined by "::")
Contains(pat, s) == \E i \in 1..(Len(s) - Len(pat) + 1) : MatchAt(pat, s, i)

\* regex \b at the gap after index p of s (p = 0: start, p = Len(s): end)
WordBoundary(s, p) ==
  LET w(i) == i >= 1 /\ i <= Len(s) /\ IsWordChar(s[i])
  IN  w(p) # w(p + 1)

\* re.search(r'\b' + pat + r'\b', s)
WordSearch(pat, s) ==
  \E i \in 1..(Len(s) - Len(pat) + 1) :
     /\ MatchAt(pat, s, i)
     /\ WordBoundary(s, i - 1)
     /\ WordBoundary(s, i + Len(pat) - 1)

\* list.index(x) (1-based); only used where x is in the list
IndexOf(x, list) == CHOOSE i \in 1..Len(list) : list[i] = x /\ \A j \in 1..(i - 1) : list[j] # x

InList(x, list) == \E i \in 1..Len(list) : list[i] = x

\* concatenation of a sequence of sequences
RECURSIVE Flatten(_)
Flatten(ss) == IF ss = <<>> THEN <<>> ELSE Head(ss) \o Flatten(Tail(ss))

\* sep.join(parts)
RECURSIVE Join(_, _)
Join(sep, parts) ==
  IF parts = <<>> THEN <<>>
  ELSE IF Len(parts) = 1 THEN parts[1]
  ELSE parts[1] \o sep \o Join(sep, Tail(parts))

\* s.split(sep), sep non-empty
RECURSIVE SplitOn(_, _)
SplitOn(sep, s) ==
  IF ~Contains(sep, s) THEN <<s>>
  ELSE LET i == CHOOSE k \in 1..Len(s) :
                   MatchAt(sep, s, k) /\ \A j \in 1..(k - 1) : ~MatchAt(sep, s, j)
       IN  <<SubSeq(s, 1, i - 1)>> \o SplitOn(sep, SubSeq(s, i + Len(sep), Len(s)))

ColonColon == <<":", ":">>


(***************************************************************************)
(* Type-string normaliser.                                                 *)
(***************************************************************************)
\* re.sub(r'\s(\s)', r'\1', s) in its place: the whitespace collapsed two
\* characters at a time
RECURSIVE CollapseSpace_pairwise(_)
CollapseSpace_pairwise(s) ==
  IF s = <<>> THEN <<>>
  ELSE IF IsSpace(s[1]) /\ Len(s) >= 2 /\ IsSpace(s[2])
       THEN <<s[2]>> \o CollapseSpace_pairwise(Tail(Tail(s)))
  ELSE <<s[1]>> \o CollapseSpace_pairwise(Tail(s))

\* re.sub(r'(\s)+', r'\1', s): each run of whitespace becomes its last
\* character
RECURSIVE CollapseSpace(_)
CollapseSpace(s) ==
  IF s = <<>> THEN <<>>
  ELSE IF IsSpace(s[1]) /\ Len(s) >= 2 /\ IsSpace(s[2]) THEN CollapseSpace(Tail(s))
  ELSE <<s[1]>> \o CollapseSpace(Tail(s))

\* s starts with one or more ' ' followed by '*' or '&'
RECURSIVE BlanksThenPtr(_)
BlanksThenPtr(s) ==
  /\ Len(s) >= 2
  /\ s[1] = " "
  /\ \/ s[2] \in {"*", "&"}
     \/ BlanksThenPtr(Tail(s))

\* re.sub(r'[ ]+([*&])', r'\1', s)
RECURSIVE StripBlanksBeforePtr(_)
StripBlanksBeforePtr(s) ==
  IF s = <<>> THEN <<>>
  ELSE IF BlanksThenPtr(s) THEN StripBlanksBeforePtr(Tail(s))
  ELSE <<s[1]>> \o StripBlanksBeforePtr(Tail(s))

\* number of leading whitespace characters of s
RECURSIVE LeadingSpace(_)
LeadingSpace(s) ==
  IF s # <<>> /\ IsSpace(s[1]) THEN 1 + LeadingSpace(Tail(s)) ELSE 0

\* re.sub('\s*([<>])\s*', r'\1', s)
RECURSIVE StripSpaceAroundAngle(_)
StripSpaceAroundAngle(s) ==
  IF s = <<>> THEN <<>>
  ELSE LET k == LeadingSpace(s)
       IN  IF k < Len(s) /\ s[k + 1] \in {"<", ">"}
           THEN LET rest == SubSeq(s, k + 2, Len(s))
                IN  <<s[k + 1]>> \o
                    StripSpaceAroundAngle(SubSeq(rest, LeadingSpace(rest) + 1, Len(rest)))
           ELSE <<s[1]>> \o StripSpaceAroundAngle(Tail(s))

_cleanup_type(type_str) ==
  StripSpaceAroundAngle(StripBlanksBeforePtr(CollapseSpace(type_str)))

\* index of the first '>' of s, 0 if none
FirstClose(s) ==
  IF \E i \in 1..Len(s) : s[i] = ">"
  THEN CHOOSE i \in 1..Len(s) : s[i] = ">" /\ \A j \in 1..(i - 1) : s[j] # ">"
  ELSE 0

\* a block <[^>]+> starts at index j of s
AngleBlockAt(s, j) ==
  /\ j >= 1 /\ j <= Len(s) /\ s[j] = "<"
  /\ FirstClose(SubSeq(s, j + 1, Len(s))) >= 2

\* re.sub('(.+)<[^>]+>', r'\1', s): the greedy (.+) reaches the last block
\* that is preceded by at least one character; nothing after it matches again
StripLastAngleBlock(s) ==
  IF \E j \in 2..Len(s) : AngleBlockAt(s, j)
  THEN LET j == CHOOSE k \in 2..Len(s) :
                   AngleBlockAt(s, k) /\ \A m \in (k + 1)..Len(s) : ~AngleBlockAt(s, m)
           c == FirstClose(SubSeq(s, j + 1, Len(s)))
       IN  SubSeq(s, 1, j - 1) \o SubSeq(s, j + c + 1, Len(s))
  ELSE s

\* re.sub('<([^>]+)>', r'\1', s)
RECURSIVE UnwrapAngleBlocks(_)
UnwrapAngleBlocks(s) ==
  IF s = <<>> THEN <<>>
  ELSE IF AngleBlockAt(s, 1)
       THEN LET c == FirstClose(Tail(s))
            IN  SubSeq(s, 2, c) \o UnwrapAngleBlocks(SubSeq(s, c + 2, Len(s)))
       ELSE <<s[1]>> \o UnwrapAngleBlocks(Tail(s))

\* re.sub(':+$', '', s)
RECURSIVE StripTrailingColons(_)
StripTrailingColons(s) ==
  IF s # <<>> /\ s[Len(s)] = ":" THEN StripTrailingColons(SubSeq(s, 1, Len(s) - 1))
  ELSE s

_cleanup_namespace(ns_str) ==
  StripTrailingColons(UnwrapAngleBlocks(StripLastAngleBlock(ns_str)))

\* re.sub(r'(\r)?\n', ' ', s)
RECURSIVE NewlinesToBlank(_)
NewlinesToBlank(s) ==
  IF s = <<>> THEN <<>>
  ELSE IF Len(s) >= 2 /\ s[1] = "\r" /\ s[2] = "\n"
       THEN <<" ">> \o NewlinesToBlank(SubSeq(s, 3, Len(s)))
  ELSE IF s[1] = "\n" THEN <<" ">> \o NewlinesToBlank(Tail(s))
  ELSE <<s[1]>> \o NewlinesToBlank(Tail(s))

\* re.sub(r'\s+', ' ', s)
RECURSIVE SpaceRunsToBlank(_)
SpaceRunsToBlank(s) ==
  IF s = <<>> THEN <<>>
  ELSE IF IsSpace(s[1])
       THEN <<" ">> \o SpaceRunsToBlank(SubSeq(s, LeadingSpace(s) + 1, Len(s)))
  ELSE <<s[1]>> \o SpaceRunsToBlank(Tail(s))

_cleanup_single_line(input_str) == SpaceRunsToBlank(NewlinesToBlank(input_str))

\* the name with `<` and `>` removed and every `-` kept, a fault seeded to
\* show what the names of the objects depend on
RECURSIVE CleanName_keeping_dashes(_)
CleanName_keeping_dashes(name) ==
  IF name = <<>> THEN <<>>
  ELSE IF name[1] \in {"<", ">"} THEN CleanName_keeping_dashes(Tail(name))
  ELSE <<name[1]>> \o CleanName_keeping_dashes(Tail(name))

\* re.sub('[<>]', '', re.sub('-', '_', name)) of Container.__init__
RECURSIVE CleanName(_)
CleanName(name) ==
  IF name = <<>> THEN <<>>
  ELSE IF name[1] \in {"<", ">"} THEN CleanName(Tail(name))
  ELSE IF name[1] = "-" THEN <<"_">> \o CleanName(Tail(name))
  ELSE <<name[1]>> \o CleanName(Tail(name))

\* re.sub('<.*>', '', s) of Class.__init__: from the first '<' through the
\* last '>' after it
StripTemplateArgs(s) ==
  IF \E i, j \in 1..Len(s) : i < j /\ s[i] = "<" /\ s[j] = ">"
  THEN LET i == CHOOSE k \in 1..Len(s) :
                   /\ s[k] = "<"
                   /\ \E m \in (k + 1)..Len(s) : s[m] = ">"
                   /\ \A m \in 1..(k - 1) : s[m] # "<"
           j == CHOOSE k \in 1..Len(s) : s[k] = ">" /\ \A m \in (k + 1)..Len(s) : s[m] # ">"
       IN  SubSeq(s, 1, i - 1) \o SubSeq(s, j + 1, Len(s))
  ELSE s

(***************************************************************************)
(* list.sort(key=...): stable, ascending by key.                           *)
(***************************************************************************)
\* the insertion of a sort that is not stable: the pair goes before the pairs
\* of equal key, a fault seeded to show what the idempotence of sorting
\* depends on
RECURSIVE InsertByKey_before_equal_keys(_, _)
InsertByKey_before_equal_keys(x, sorted) ==
  IF sorted = <<>> THEN <<x>>
  ELSE IF ~KeyLt(Head(sorted)[1], x[1]) THEN <<x>> \o sorted
  ELSE <<Head(sorted)>> \o InsertByKey_before_equal_keys(x, Tail(sorted))

\* a <<key, element>> pair inserted after every pair whose key is not greater
RECURSIVE InsertByKey(_, _)
InsertByKey(x, sorted) ==
  IF sorted = <<>> THEN <<x>>
  ELSE IF KeyLt(x[1], Head(sorted)[1]) THEN <<x>> \o sorted
  ELSE <<Head(sorted)>> \o InsertByKey(x, Tail(sorted))

RECURSIVE SortFrom(_, _)
SortFrom(done, todo) ==
  IF todo = <<>> THEN done
  ELSE SortFrom(InsertByKey(Head(todo), done), Tail(todo))

\* list.sort(key=...) of the elements given as <<key, element>> pairs
SortByKey(pairs) ==
  LET srt == SortFrom(<<>>, pairs)
  IN  [i \in 1..Len(pairs) |-> srt[i][2]]


\* texts the program compares and orders
TXT_class == <<"c", "l", "a", "s", "s">>
TXT_struct == <<"s", "t", "r", "u", "c", "t">>
TXT_union == <<"u", "n", "i", "o", "n">>
TXT_enum == <<"e", "n", "u", "m">>
TXT_inherit == <<"i", "n", "h", "e", "r", "i", "t">>
TXT_aggregation == <<"a", "g", "g", "r", "e", "g", "a", "t", "i", "o", "n">>
TXT_composition == <<"c", "o", "m", "p", "o", "s", "i", "t", "i", "o", "n">>
TXT_dependency == <<"d", "e", "p", "e", "n", "d", "e", "n", "c", "y">>
TXT_nesting == <<"n", "e", "s", "t", "i", "n", "g">>

(***************************************************************************)
(* Constants of the program.                                               *)
(***************************************************************************)
\* MEMBER_PROP_MAP: the PlantUML symbol of a member scope
MEMBER_PROP_MAP(scope) ==
  CASE scope = "private" -> <<"-">>
    [] scope = "public" -> <<"+">>
    [] scope = "protected" -> <<"#">>

\* MEMBER_PROP_MAP.keys(), in the dictionary's order
MEMBER_PROP_KEYS == <<"private", "public", "protected">>

\* LINK_TYPE_MAP
LINK_TYPE_MAP(link_type) ==
  CASE link_type = TXT_inherit -> <<"<", "|", "-", "-">>
    [] link_type = TXT_aggregation -> <<"o", "-", "-">>
    [] link_type = TXT_composition -> <<"*", "-", "-">>
    [] link_type = TXT_dependency -> <<"<", ".", ".">>
    [] link_type = TXT_nesting -> <<"+", "-", "-">>

(***************************************************************************)
(* Members of a container.                                                 *)
(***************************************************************************)
\* ClassVariable.__init__ (with ClassMember.__init__, ContainerMember.__init__)
ClassVariable(class_variable, member_scope) ==
  [cls |-> "ClassVariable",
   name |-> class_variable.name,
   type |-> _cleanup_type(class_variable.type) \o
            (IF class_variable.array THEN <<"[", "]">> ELSE <<>>),
   static |-> class_variable.static,
   scope |-> member_scope,
   properties |-> <<>>,
   abstract |-> FALSE,
   param_list |-> <<>>]

\* ClassMethod.__init__
ClassMethod(class_method, member_scope) ==
  [cls |-> "ClassMethod",
   name |-> (IF class_method.destructor THEN <<"~">> ELSE <<>>) \o class_method.name,
   type |-> _cleanup_type(class_method.returns) \o
            (IF class_method.returns_pointer THEN <<"*">>
             ELSE IF class_method.returns_reference THEN <<"&">>
             ELSE <<>>),
   static |-> class_method.static,
   scope |-> member_scope,
   properties |-> IF class_method.const THEN <<<<"q", "u", "e", "r", "y">>>> ELSE <<>>,
   abstract |-> class_method.pure_virtual,
   param_list |-> [i \in 1..Len(class_method.parameters) |->
                     <<_cleanup_type(class_method.parameters[i].type),
                       class_method.parameters[i].name>>]]

\* EnumValue.__init__: the type slot stays None
EnumValue(header_value) ==
  [cls |-> "EnumValue",
   name |-> header_value,
   type |-> None,
   static |-> FALSE,
   scope |-> "private",
   properties |-> <<>>,
   abstract |-> FALSE,
   param_list |-> <<>>]

\* ContainerMember.comparison_keys
MemberComparisonKeys(member) ==
  IF member.type # None THEN <<member.type, member.name>> ELSE <<member.name>>

\* str.strip()
RECURSIVE Strip(_)
Strip(s) ==
  IF s # <<>> /\ IsSpace(s[1]) THEN Strip(Tail(s))
  ELSE IF s # <<>> /\ IsSpace(s[Len(s)]) THEN Strip(SubSeq(s, 1, Len(s) - 1))
  ELSE s

\* ClassMethod._render_name (its assertion is MethodAssertion)
MethodRenderName(member) ==
  (IF member.abstract THEN <<"{", "a", "b", "s", "t", "r", "a", "c", "t", "}", " ">> ELSE <<>>) \o member.name \o <<"(">> \o
  Join(<<",", " ">>, [i \in 1..Len(member.param_list) |->
                    Strip(Join(<<" ">>, member.param_list[i]))]) \o <<")">>

\* the assert of ClassMethod._render_name
MethodAssertion(member) == ~member.static \/ ~member.abstract

\* ClassMember.render writing the type whether or not there is one, a fault
\* seeded to show what the member property depends on
MemberRender_always_typed(member) ==
  IF member.cls = "EnumValue" THEN member.name
  ELSE MEMBER_PROP_MAP(member.scope) \o
       (IF member.static THEN <<"{", "s", "t", "a", "t", "i", "c", "}", " ">> ELSE <<>>) \o
       (IF member.cls = "ClassMethod" THEN MethodRenderName(member) ELSE member.name) \o
       <<" ", ":", " ">> \o member.type \o
       (IF Len(member.properties) > 0
        THEN <<" ", "{">> \o Join(<<",", " ">>, member.properties) \o <<"}">>
        ELSE <<>>)

\* ClassMember.render; EnumValue.render
MemberRender(member) ==
  IF member.cls = "EnumValue" THEN member.name
  ELSE LET props == IF Len(member.properties) > 0
                    THEN <<" ", "{">> \o Join(<<",", " ">>, member.properties) \o <<"}">>
                    ELSE <<>>
           vis == MEMBER_PROP_MAP(member.scope) \o
                  (IF member.static THEN <<"{", "s", "t", "a", "t", "i", "c", "}", " ">> ELSE <<>>)
           nm == IF member.cls = "ClassMethod" THEN MethodRenderName(member)
                 ELSE member.name
       IN  vis \o nm \o
           (IF Truthy(member.type) THEN <<" ", ":", " ">> \o member.type ELSE <<>>) \o props

(***************************************************************************)
(* Containers: Class and Enum.                                             *)
(***************************************************************************)
\* the outermost enclosing declaration of a nested declaration
RECURSIVE OutermostParent(_)
OutermostParent(p) ==
  IF p.parent # <<>> THEN OutermostParent(p.parent[1]) ELSE p

\* Container.parse_members: the pair <<_namespace, _parent>> of a container
\* whose name is already set
ParseNamespace(name, header_container) ==
  LET namespace == IF "namespace" \in DOMAIN header_container
                   THEN header_container.namespace ELSE <<>>
      parent == IF "parent" \in DOMAIN header_container
                THEN header_container.parent ELSE <<>>
  IN  IF namespace # <<>>
      THEN IF parent = <<>>
           THEN <<_cleanup_namespace(namespace), None>>
           ELSE LET parts == SplitOn(ColonColon, name)
                IN  <<OutermostParent(parent[1]).namespace,
                      Join(ColonColon, SubSeq(parts, 1, Len(parts) - 1))>>
      ELSE <<<<>>, None>>

\* the members of one kind and one scope that are not deleted
RECURSIVE KeepMembers(_, _, _)
KeepMembers(member_list, handler, member_prop) ==
  IF member_list = <<>> THEN <<>>
  ELSE (IF "deleted" \in DOMAIN Head(member_list) /\ Head(member_list).deleted
        THEN <<>>
        ELSE <<IF handler = "ClassVariable"
               THEN ClassVariable(Head(member_list), member_prop)
               ELSE ClassMethod(Head(member_list), member_prop)>>) \o
       KeepMembers(Tail(member_list), handler, member_prop)

\* Class._do_parse_members: properties then methods, each by scope
ClassParseMembers(header_class) ==
  Flatten([i \in 1..3 |->
             KeepMembers(header_class.properties[MEMBER_PROP_KEYS[i]],
                         "ClassVariable", MEMBER_PROP_KEYS[i])]) \o
  Flatten([i \in 1..3 |->
             KeepMembers(header_class.methods[MEMBER_PROP_KEYS[i]],
                         "ClassMethod", MEMBER_PROP_KEYS[i])])

\* Class.__init__, from the pair (name, CppClass)
Class(header_class) ==
  LET nm == CleanName(header_class[1])
      h == header_class[2]
      np == ParseNamespace(nm, h)
  IN  [cls |-> "Class",
       container_type |-> h.declaration_method,
       name |-> nm,
       member_list |-> ClassParseMembers(h),
       namespace |-> np[1],
       parent |-> np[2],
       abstract |-> h.abstract,
       template_type |-> IF "template" \in DOMAIN h
                         THEN _cleanup_single_line(h.template) ELSE None,
       inheritance_list |-> [i \in 1..Len(h.inherits) |->
                               StripTemplateArgs(h.inherits[i].class)]]

\* Enum.__init__
Enum(header_enum, parent) ==
  LET nm == CleanName(IF "name" \in DOMAIN header_enum
                      THEN header_enum.name ELSE <<"e", "m", "p", "t", "y">>)
      np == ParseNamespace(nm, header_enum)
      values == IF "values" \in DOMAIN header_enum THEN header_enum.values ELSE <<>>
  IN  [cls |-> "Enum",
       container_type |-> TXT_enum,
       name |-> nm,
       member_list |-> [i \in 1..Len(values) |-> EnumValue(values[i].name)],
       namespace |-> np[1],
       parent |-> IF Truthy(parent) THEN parent ELSE np[2],
       abstract |-> FALSE,
       template_type |-> None,
       inheritance_list |-> <<>>]

\* comparison_keys giving the name alone, a fault seeded to show what the
\* order of the objects depends on
ContainerComparisonKeys_name_only(obj) == <<obj.name>>

\* Container.comparison_keys
ContainerComparisonKeys(obj) == <<obj.container_type, obj.name>>

\* Container.sort_members
SortMembers(obj) ==
  [obj EXCEPT !.member_list = SortByKey([i \in 1..Len(obj.member_list) |->
                      <<MemberComparisonKeys(obj.member_list[i]), obj.member_list[i]>>])]

\* Class.build_variable_type_list
BuildVariableTypeList(obj) ==
  LET vars == SelectSeq(obj.member_list, LAMBDA m : m.cls = "ClassVariable")
  IN  [i \in 1..Len(vars) |-> vars[i].type]

\* _render_container_def writing the declared kind as it is, a fault seeded to
\* show what the class property depends on
RenderContainerDef_declared_kind(obj) ==
  IF obj.cls = "Class"
  THEN (IF obj.abstract THEN <<"a", "b", "s", "t", "r", "a", "c", "t", " ">> ELSE <<>>) \o
       obj.container_type \o <<" ">> \o obj.name \o
       (IF obj.template_type # None
        THEN <<" ", "<">> \o obj.template_type \o <<">">> ELSE <<>>)
  ELSE obj.container_type \o <<" ">> \o obj.name

\* Class._render_container_def; Container._render_container_def for an Enum
RenderContainerDef(obj) ==
  IF obj.cls = "Class"
  THEN (IF obj.abstract THEN <<"a", "b", "s", "t", "r", "a", "c", "t", " ">> ELSE <<>>) \o
       (IF obj.container_type \in {TXT_struct, TXT_union}
        THEN TXT_class ELSE obj.container_type) \o <<" ">> \o obj.name \o
       (IF obj.template_type # None
        THEN <<" ", "<">> \o obj.template_type \o <<">">> ELSE <<>>)
  ELSE obj.container_type \o <<" ">> \o obj.name

\* Container.render
ContainerRender(obj) ==
  RenderContainerDef(obj) \o <<" ", "{">> \o <<"\n">> \o
  Flatten([i \in 1..Len(obj.member_list) |->
             <<"\t">> \o MemberRender(obj.member_list[i]) \o <<"\n">>]) \o
  <<"}", "\n">>


(***************************************************************************)
(* Relationships.                                                          *)
(***************************************************************************)
\* the child's namespace recorded for the parent as well
ClassRelationship_one_namespace(link_type, c_parent, c_child, c_count) ==
  [link_type |-> link_type,
   parent |-> c_parent.name,
   child |-> c_child.name,
   parent_namespace |-> c_child.namespace,
   child_namespace |-> c_child.namespace,
   count |-> c_count]

\* ClassRelationship.__init__; c_count is kept by ClassAggregationRelationship
\* only (0 stands for the missing attribute of the other kinds)
ClassRelationship(link_type, c_parent, c_child, c_count) ==
  [link_type |-> link_type,
   parent |-> c_parent.name,
   child |-> c_child.name,
   parent_namespace |-> c_parent.namespace,
   child_namespace |-> c_child.namespace,
   count |-> c_count]

ClassInheritanceRelationship(c_parent, c_child) ==
  ClassRelationship(TXT_inherit, c_parent, c_child, 0)

ClassAggregationRelationship(c_object, c_container, c_count, rel_type) ==
  ClassRelationship(rel_type, c_object, c_container, c_count)

ClassDependencyRelationship(c_parent, c_child) ==
  ClassRelationship(TXT_dependency, c_parent, c_child, 0)

ClassNestingRelationship(c_parent, c_child) ==
  ClassRelationship(TXT_nesting, c_parent, c_child, 0)

\* ClassRelationship.comparison_keys
RelComparisonKeys(rel) == <<rel.parent, rel.child, rel.link_type>>

\* get_namespace_link_name
get_namespace_link_name(namespace) ==
  IF namespace = <<>> THEN <<>> ELSE Join(<<".">>, SplitOn(ColonColon, namespace))

\* ClassRelationship._render_name
RelRenderName(class_name, class_namespace) ==
  IF Truthy(class_namespace)
  THEN get_namespace_link_name(class_namespace) \o <<".">> \o class_name
  ELSE class_name

\* '%d' % n, for n >= 0
RECURSIVE Decimal(_)
Decimal(n) ==
  LET digit == <<"0", "1", "2", "3", "4", "5", "6", "7", "8", "9">>
  IN  IF n < 10 THEN <<digit[n + 1]>> ELSE Decimal(n \div 10) \o <<digit[(n % 10) + 1]>>

\* ClassRelationship._render_link_type and its override in
\* ClassAggregationRelationship
RenderLinkType(rel) ==
  IF rel.link_type \in {TXT_aggregation, TXT_composition}
  THEN (IF rel.count = 1 THEN <<>> ELSE <<"\"">> \o Decimal(rel.count) \o <<"\"", " ">>) \o
       LINK_TYPE_MAP(rel.link_type)
  ELSE LINK_TYPE_MAP(rel.link_type)

\* ClassRelationship.render
RelRender(rel) ==
  RelRenderName(rel.parent, rel.parent_namespace) \o <<" ">> \o RenderLinkType(rel) \o
  <<" ">> \o RelRenderName(rel.child, rel.child_namespace) \o <<"\n">>

(***************************************************************************)
(* The Diagram.  A diagram value d holds the fields of one Diagram object. *)
(***************************************************************************)
\* Diagram.__init__ followed by clear(): the lists of a new Diagram
NewDiagram(flag) ==
  [objects |-> <<>>, inheritance_list |-> <<>>, aggregation_list |-> <<>>,
   dependency_list |-> <<>>, nesting_list |-> <<>>, flag_dep |-> flag]

\* clear leaving the nesting list as it is, a fault seeded to show what the
\* clear property depends on
clear_keeping_nesting_list(d) ==
  [d EXCEPT !.objects = <<>>, !.inheritance_list = <<>>, !.aggregation_list = <<>>,
            !.dependency_list = <<>>]

\* Diagram.clear
clear(d) ==
  [d EXCEPT !.objects = <<>>, !.inheritance_list = <<>>, !.aggregation_list = <<>>,
            !.dependency_list = <<>>, !.nesting_list = <<>>]

\* Diagram._sort_list
_sort_list(input_list) ==
  SortByKey([i \in 1..Len(input_list) |-> <<RelComparisonKeys(input_list[i]), input_list[i]>>])

\* Diagram.sort_elements
sort_elements(d) ==
  LET sorted == SortByKey([i \in 1..Len(d.objects) |->
                             <<ContainerComparisonKeys(d.objects[i]), d.objects[i]>>])
  IN  [d EXCEPT !.objects = [i \in 1..Len(sorted) |-> SortMembers(sorted[i])],
                !.inheritance_list = _sort_list(d.inheritance_list),
                !.aggregation_list = _sort_list(d.aggregation_list),
                !.dependency_list = _sort_list(d.dependency_list),
                !.nesting_list = _sort_list(d.nesting_list)]

\* Diagram._get_class_list: class_list (the plain names)
ClassList(d) == [i \in 1..Len(d.objects) |-> d.objects[i].name]

\* Diagram._get_class_list: class_list_ns (the qualified names)
ClassListNs(d) ==
  [i \in 1..Len(d.objects) |->
     (IF Truthy(d.objects[i].namespace)
      THEN d.objects[i].namespace \o ColonColon ELSE <<>>) \o d.objects[i].name]

\* the lookup shared by build_inheritance_list and build_nesting_list: the
\* objects a reference resolves to (one, or none), plain name first
Resolve(d, ref) ==
  IF InList(ref, ClassList(d)) THEN <<d.objects[IndexOf(ref, ClassList(d))]>>
  ELSE IF InList(ref, ClassListNs(d)) THEN <<d.objects[IndexOf(ref, ClassListNs(d))]>>
  ELSE <<>>

\* build_inheritance_list with the qualified-name fallback left out, a fault
\* seeded to show what the inheritance property depends on
build_inheritance_list_plain_only(d) ==
  LET class_list == [i \in 1..Len(d.objects) |-> d.objects[i].name]
      edges(obj) ==
        Flatten([k \in 1..Len(obj.inheritance_list) |->
                   IF InList(obj.inheritance_list[k], class_list)
                   THEN <<ClassInheritanceRelationship(
                            d.objects[IndexOf(obj.inheritance_list[k], class_list)], obj)>>
                   ELSE <<>>])
  IN  [d EXCEPT !.inheritance_list =
         Flatten([i \in 1..Len(d.objects) |->
                    IF d.objects[i].cls = "Class" THEN edges(d.objects[i]) ELSE <<>>])]

\* Diagram.build_inheritance_list
build_inheritance_list(d) ==
  LET edges(obj) ==
        Flatten([k \in 1..Len(obj.inheritance_list) |->
                   LET parent_obj == Resolve(d, obj.inheritance_list[k])
                   IN  IF parent_obj # <<>>
                       THEN <<ClassInheritanceRelationship(parent_obj[1], obj)>>
                       ELSE <<>>])
  IN  [d EXCEPT !.inheritance_list =
         Flatten([i \in 1..Len(d.objects) |->
                    IF d.objects[i].cls = "Class" THEN edges(d.objects[i]) ELSE <<>>])]

\* Diagram._augment_comp; the dict c_dict is a sequence of <<key, value>> in
\* insertion order, a value being a sequence of <<parent, rel_type, count>>
_augment_comp(c_dict, c_parent, c_child, rel_type) ==
  IF ~\E i \in 1..Len(c_dict) : c_dict[i][1] = c_child
  THEN Append(c_dict, <<c_child, << <<c_parent, rel_type, 1>> >> >>)
  ELSE LET i == CHOOSE k \in 1..Len(c_dict) : c_dict[k][1] = c_child
           lst == c_dict[i][2]
       IN  IF ~\E j \in 1..Len(lst) : lst[j][1] = c_parent /\ lst[j][2] = rel_type
           THEN [c_dict EXCEPT ![i][2] = Append(lst, <<c_parent, rel_type, 1>>)]
           ELSE LET c_idx == CHOOSE j \in 1..Len(lst) :
                               /\ lst[j][1] = c_parent /\ lst[j][2] = rel_type
                               /\ \A m \in 1..(j - 1) :
                                    ~(lst[m][1] = c_parent /\ lst[m][2] = rel_type)
                IN  [c_dict EXCEPT ![i][2][c_idx][3] = @ + 1]

\* variable_type_list[name] of build_aggregation_list: a later Class of the
\* same name replaces the entry of an earlier one
VariableTypeList(d, name) ==
  LET idx == {i \in 1..Len(d.objects) :
                d.objects[i].cls = "Class" /\ d.objects[i].name = name}
      last == CHOOSE i \in idx : \A j \in idx : j <= i
  IN  BuildVariableTypeList(d.objects[last])

HasVariableTypeList(d, name) ==
  \E i \in 1..Len(d.objects) : d.objects[i].cls = "Class" /\ d.objects[i].name = name

\* the calls of _augment_comp made by the first loop nest of
\* build_aggregation_list, in order, as <<parent, child_class, rel_type>>;
\* `for parent in class_list or parent in class_list_ns` iterates class_list
\* (the loop is reached only when class_list is not empty)
AggregationMatches(d) ==
  LET class_list == ClassList(d)
      per_type(child_class, var_type) ==
        Flatten([k \in 1..Len(class_list) |->
                   IF WordSearch(class_list[k], var_type)
                   THEN << <<class_list[k], child_class,
                             IF Contains(class_list[k] \o <<"*">>, var_type)
                             THEN TXT_aggregation ELSE TXT_composition>> >>
                   ELSE <<>>])
      per_child(child_class) ==
        IF HasVariableTypeList(d, child_class)
        THEN LET var_types == VariableTypeList(d, child_class)
             IN  Flatten([v \in 1..Len(var_types) |-> per_type(child_class, var_types[v])])
        ELSE <<>>
  IN  Flatten([i \in 1..Len(class_list) |-> per_child(class_list[i])])

RECURSIVE AugmentAll(_, _)
AugmentAll(c_dict, calls) ==
  IF calls = <<>> THEN c_dict
  ELSE AugmentAll(_augment_comp(c_dict, Head(calls)[1], Head(calls)[2], Head(calls)[3]),
                  Tail(calls))

\* aggregation_counts of build_aggregation_list after its first loop nest
AggregationCounts(d) == AugmentAll(<<>>, AggregationMatches(d))

\* Diagram.build_aggregation_list
build_aggregation_list(d) ==
  LET class_list == ClassList(d)
      class_list_ns == ClassListNs(d)
      counts == AggregationCounts(d)
      edge(obj_class, comp) ==
        LET idx == CASE InList(obj_class, class_list) ->
                          <<IndexOf(obj_class, class_list), IndexOf(comp[1], class_list)>>
                     [] ~InList(obj_class, class_list) /\ InList(obj_class, class_list_ns) ->
                          <<IndexOf(obj_class, class_list_ns), IndexOf(comp[1], class_list_ns)>>
        IN  ClassAggregationRelationship(d.objects[idx[1]], d.objects[idx[2]],
                                         comp[3], comp[2])
  IN  [d EXCEPT !.aggregation_list =
         Flatten([i \in 1..Len(counts) |->
                    [j \in 1..Len(counts[i][2]) |-> edge(counts[i][1], counts[i][2][j])]])]

\* build_dependency_list looking for the names as whole words, a fault seeded
\* to show what the dependency edges depend on
build_dependency_list_whole_word(d) ==
  LET objects_name == [i \in 1..Len(d.objects) |-> d.objects[i].name]
      per_param(obj, param) ==
        LET hits == {i \in 1..Len(objects_name) : WordSearch(objects_name[i], param[1])}
        IN  IF hits # {} /\ param[1] # obj.name
            THEN <<ClassDependencyRelationship(
                     d.objects[CHOOSE i \in hits : \A j \in hits : i <= j], obj)>>
            ELSE <<>>
      per_obj(obj) ==
        IF obj.cls = "Class"
        THEN Flatten([m \in 1..Len(obj.member_list) |->
                        IF obj.member_list[m].cls = "ClassMethod"
                        THEN Flatten([k \in 1..Len(obj.member_list[m].param_list) |->
                                        per_param(obj, obj.member_list[m].param_list[k])])
                        ELSE <<>>])
        ELSE <<>>
  IN  [d EXCEPT !.dependency_list =
         Flatten([i \in 1..Len(d.objects) |-> per_obj(d.objects[i])])]

\* Diagram.build_dependency_list
build_dependency_list(d) ==
  LET objects_name == [i \in 1..Len(d.objects) |-> d.objects[i].name]
      per_param(obj, param) ==
        LET hits == {i \in 1..Len(objects_name) : Contains(objects_name[i], param[1])}
        IN  IF hits # {} /\ param[1] # obj.name
            THEN <<ClassDependencyRelationship(
                     d.objects[CHOOSE i \in hits : \A j \in hits : i <= j], obj)>>
            ELSE <<>>
      per_member(obj, member) ==
        IF member.cls = "ClassMethod"
        THEN Flatten([k \in 1..Len(member.param_list) |->
                        per_param(obj, member.param_list[k])])
        ELSE <<>>
      per_obj(obj) ==
        IF obj.cls = "Class"
        THEN Flatten([m \in 1..Len(obj.member_list) |-> per_member(obj, obj.member_list[m])])
        ELSE <<>>
  IN  [d EXCEPT !.dependency_list =
         Flatten([i \in 1..Len(d.objects) |-> per_obj(d.objects[i])])]

\* build_nesting_list looking at the classes only, a fault seeded to show what
\* the nesting property depends on
build_nesting_list_classes_only(d) ==
  LET edge(obj) ==
        LET parent_obj == IF Truthy(obj.parent) THEN Resolve(d, obj.parent) ELSE <<>>
        IN  IF obj.cls = "Class" /\ parent_obj # <<>>
            THEN <<ClassNestingRelationship(parent_obj[1], obj)>>
            ELSE <<>>
  IN  [d EXCEPT !.nesting_list =
         Flatten([i \in 1..Len(d.objects) |-> edge(d.objects[i])])]

\* Diagram.build_nesting_list
build_nesting_list(d) ==
  LET edge(obj) ==
        LET parent_obj == IF Truthy(obj.parent) THEN Resolve(d, obj.parent) ELSE <<>>
        IN  IF parent_obj # <<>>
            THEN <<ClassNestingRelationship(parent_obj[1], obj)>>
            ELSE <<>>
  IN  [d EXCEPT !.nesting_list =
         Flatten([i \in 1..Len(d.objects) |-> edge(d.objects[i])])]

\* build_relationship_lists building the dependency list whatever the flag, a
\* fault seeded to show what the dependency property depends on
build_relationship_lists_ignoring_flag(d) ==
  build_dependency_list(
    build_nesting_list(build_aggregation_list(build_inheritance_list(d))))

\* Diagram.build_relationship_lists
build_relationship_lists(d) ==
  LET d3 == build_nesting_list(build_aggregation_list(build_inheritance_list(d)))
  IN  IF d.flag_dep THEN build_dependency_list(d3) ELSE d3


\* str.splitlines(), for texts whose only line break is "\n"
SplitLines(s) ==
  IF s = <<>> THEN <<>>
  ELSE LET parts == SplitOn(<<"\n">>, s)
       IN  IF parts[Len(parts)] = <<>> THEN SubSeq(parts, 1, Len(parts) - 1) ELSE parts

\* wrap_namespace
wrap_namespace(input_str, namespace) ==
  LET lines == SplitLines(input_str)
  IN  <<"n", "a", "m", "e", "s", "p", "a", "c", "e", " ">> \o namespace \o <<" ", "{", "\n">> \o
      Join(<<"\n">>, [i \in 1..Len(lines) |->
                        IF lines[i] # <<>> THEN <<"\t">> \o lines[i] ELSE lines[i]]) \o
      <<"\n", "}", "\n">>

\* ns_list without the enclosing namespaces that hold no object, a fault
\* seeded to show what the containers of render() depend on
NamespaceSet_without_ancestors(d) ==
  {d.objects[i].namespace : i \in {k \in 1..Len(d.objects) : Truthy(d.objects[k].namespace)}}

\* ns_list of Diagram.render before it is sorted: the namespaces of the
\* objects and the enclosing namespaces of each, without duplicates
NamespaceSet(d) ==
  LET ns_list_in == {d.objects[i].namespace : i \in {k \in 1..Len(d.objects) :
                                                      Truthy(d.objects[k].namespace)}}
      prefixes(ns) == LET ns_split == SplitOn(ColonColon, ns)
                      IN  {Join(ColonColon, SubSeq(ns_split, 1, ni)) :
                             ni \in 1..(Len(ns_split) - 1)}
  IN  ns_list_in \cup UNION {prefixes(ns) : ns \in ns_list_in}

\* the sort key of Diagram.render, (len(ns.split('::')), ns), compared
NsKeyLt(a, b) ==
  LET la == Len(SplitOn(ColonColon, a))
      lb == Len(SplitOn(ColonColon, b))
  IN  la < lb \/ (la = lb /\ StrLt(a, b))

\* sorted(ns_list, key=..., reverse=True)
RECURSIVE NsSorted(_)
NsSorted(S) ==
  IF S = {} THEN <<>>
  ELSE LET top == CHOOSE a \in S : \A b \in S \ {a} : NsKeyLt(b, a)
       IN  <<top>> \o NsSorted(S \ {top})

\* Namespace.render of ns_obj_map[ns] once Diagram.render has filled it: the
\* objects of the namespace in diagram order, then its nested namespaces in
\* ns_list order
RECURSIVE NamespaceRender(_, _, _)
NamespaceRender(d, ns_list, ns) ==
  LET own == SelectSeq(d.objects, LAMBDA obj : obj.namespace = ns)
      nested == SelectSeq(ns_list, LAMBDA n :
                  LET ns_name_parts == SplitOn(ColonColon, n)
                  IN  /\ Len(ns_name_parts) > 1
                      /\ Join(ColonColon, SubSeq(ns_name_parts, 1,
                                                 Len(ns_name_parts) - 1)) = ns)
      name == IF Truthy(ns) THEN LET parts == SplitOn(ColonColon, ns)
                                 IN  parts[Len(parts)]
              ELSE ns
  IN  wrap_namespace(
        Join(<<"\n">>, [i \in 1..Len(own) |-> ContainerRender(own[i])] \o
                       [i \in 1..Len(nested) |-> NamespaceRender(d, ns_list, nested[i])]),
        name)

\* objects_out of Diagram.render, each element rendered: the objects of the
\* global namespace, then the top level namespaces
ObjectsOut(d) ==
  LET ns_list == NsSorted(NamespaceSet(d))
      global == SelectSeq(d.objects, LAMBDA obj : ~Truthy(obj.namespace))
      top == SelectSeq(ns_list, LAMBDA n : Len(SplitOn(ColonColon, n)) = 1)
  IN  [i \in 1..Len(global) |-> ContainerRender(global[i])] \o
      [i \in 1..Len(top) |-> NamespaceRender(d, ns_list, top[i])]

\* template.render(objects=..., inheritance_list=..., ...): the rendering
\* engine is handed the bundle and calls render() on each element; the text it
\* returns is a function of these rendered elements
TemplateRender(objects_out, inheritance, aggregation, dependency, nesting, flag) ==
  [objects |-> objects_out,
   inheritance_list |-> [i \in 1..Len(inheritance) |-> RelRender(inheritance[i])],
   aggregation_list |-> [i \in 1..Len(aggregation) |-> RelRender(aggregation[i])],
   dependency_list |-> [i \in 1..Len(dependency) |-> RelRender(dependency[i])],
   nesting_list |-> [i \in 1..Len(nesting) |-> RelRender(nesting[i])],
   flag_dep |-> flag]

\* Diagram.render
render(d) ==
  TemplateRender(ObjectsOut(d), d.inheritance_list, d.aggregation_list,
                 d.dependency_list, d.nesting_list, d.flag_dep)


\* ns_list of Diagram.render once sorted: deepest namespaces first
NsList(d) == NsSorted(NamespaceSet(d))

\* step 1 of Diagram.render from the object at place i on: each object is
\* appended to the container of its namespace in the flat map ns_obj_map, or
\* to objects_out.  A container is the list of what was appended to it, an
\* object by its place in _objects, a namespace by its name; a lookup in
\* ns_obj_map of a key it does not hold raises KeyError
RECURSIVE PlaceObjects(_, _, _)
PlaceObjects(d, i, t) ==
  IF i > Len(d.objects) \/ t.key_error THEN t
  ELSE LET ns == d.objects[i].namespace
           obj == [kind |-> "object", at |-> i, ns |-> <<>>]
       IN  PlaceObjects(d, i + 1,
             IF Truthy(ns)
             THEN IF ns \in DOMAIN t.ns_obj_map
                  THEN [t EXCEPT !.ns_obj_map[ns] = Append(@, obj)]
                  ELSE [t EXCEPT !.key_error = TRUE]
             ELSE [t EXCEPT !.objects_out = Append(@, obj)])

\* step 2 of Diagram.render from the namespace at place i of ns_list on: each
\* namespace is appended to the container of its parent, or to objects_out;
\* what is appended is the container itself, so what it holds in the end
RECURSIVE AttachNamespaces(_, _, _)
AttachNamespaces(ns_list, i, t) ==
  IF i > Len(ns_list) \/ t.key_error THEN t
  ELSE LET ns_name_parts == SplitOn(ColonColon, ns_list[i])
           ns_parent == Join(ColonColon, SubSeq(ns_name_parts, 1, Len(ns_name_parts) - 1))
           node == [kind |-> "namespace", at |-> 0, ns |-> ns_list[i]]
       IN  AttachNamespaces(ns_list, i + 1,
             IF Len(ns_name_parts) > 1
             THEN IF ns_parent \in DOMAIN t.ns_obj_map
                  THEN [t EXCEPT !.ns_obj_map[ns_parent] = Append(@, node)]
                  ELSE [t EXCEPT !.key_error = TRUE]
             ELSE [t EXCEPT !.objects_out = Append(@, node)])

\* ns_obj_map and objects_out as Diagram.render hands them to the template
RenderTree(d) ==
  AttachNamespaces(NsList(d), 1,
    PlaceObjects(d, 1, [ns_obj_map |-> [ns \in NamespaceSet(d) |-> <<>>],
                        objects_out |-> <<>>,
                        key_error |-> FALSE]))

\* self._env.get_template(self._template_file) finds the template: the
\* package holds default.puml; a template of the caller is looked up in its
\* directory when render() is called, and is there or not
TemplateFound(template) == IF template = "default.puml" THEN {TRUE} ELSE BOOLEAN

\* render() sorting the Diagram before it places the objects
RenderCall_sorting(d, found) ==
  LET sorted == sort_elements(d)
      tree == RenderTree(sorted)
      asserted == \A i \in 1..Len(d.objects) :
                    \A m \in 1..Len(d.objects[i].member_list) :
                      d.objects[i].member_list[m].cls = "ClassMethod" =>
                        MethodAssertion(d.objects[i].member_list[m])
      error == IF ~found THEN "TemplateNotFound"
               ELSE IF tree.key_error THEN "KeyError"
               ELSE IF ~asserted THEN "AssertionError"
               ELSE ""
  IN  [d |-> sorted,
       error |-> error,
       tree |-> IF error = "" THEN <<tree>> ELSE <<>>,
       text |-> IF error = "" THEN <<render(sorted)>> ELSE <<>>]

\* a call of Diagram.render: the Diagram after it, the error that ended it
\* ("" when it returned), and, when it returned, the containers it made and
\* the text
RenderCall(d, found) ==
  LET tree == RenderTree(d)
      asserted == \A i \in 1..Len(d.objects) :
                    \A m \in 1..Len(d.objects[i].member_list) :
                      d.objects[i].member_list[m].cls = "ClassMethod" =>
                        MethodAssertion(d.objects[i].member_list[m])
      error == IF ~found THEN "TemplateNotFound"
               ELSE IF tree.key_error THEN "KeyError"
               ELSE IF ~asserted THEN "AssertionError"
               ELSE ""
  IN  [d |-> d,
       error |-> error,
       tree |-> IF error = "" THEN <<tree>> ELSE <<>>,
       text |-> IF error = "" THEN <<render(d)>> ELSE <<>>]


(***************************************************************************)
(* The external parser, CppHeaderParser.CppHeader, as an oracle: what it   *)
(* returns for the header texts of this model.                             *)
(***************************************************************************)
NoMembers == [private |-> <<>>, public |-> <<>>, protected |-> <<>>]

\* a CppVariable
CppVariable(name, type) ==
  [name |-> name, type |-> type, static |-> FALSE, array |-> FALSE]

\* a CppMethod
CppMethod(name, returns, parameters, const) ==
  [name |-> name, returns |-> returns, returns_pointer |-> FALSE,
   returns_reference |-> FALSE, static |-> FALSE, pure_virtual |-> FALSE,
   destructor |-> FALSE, const |-> const, deleted |-> FALSE,
   parameters |-> parameters]

\* a CppClass
CppClass(declaration_method, namespace, inherits, properties, methods, enums) ==
  [declaration_method |-> declaration_method, namespace |-> namespace,
   abstract |-> FALSE, inherits |-> [i \in 1..Len(inherits) |-> [class |-> inherits[i]]],
   properties |-> properties, methods |-> methods, enums |-> enums]

\* class B {};
\* class A { B obj; B * p1; B * p2; };
\* class AB {};
HeaderA ==
  [classes |-> <<
     <<<<"B">>, CppClass(TXT_class, <<>>, <<>>, NoMembers, NoMembers, NoMembers)>>,
     <<<<"A">>, CppClass(TXT_class, <<>>, <<>>,
                [NoMembers EXCEPT !.private =
                   <<CppVariable(<<"o", "b", "j">>, <<"B">>), CppVariable(<<"p", "1">>, <<"B", " ", "*">>),
                     CppVariable(<<"p", "2">>, <<"B", " ", "*">>)>>],
                NoMembers, NoMembers)>>,
     <<<<"A", "B">>, CppClass(TXT_class, <<>>, <<>>, NoMembers, NoMembers, NoMembers)>> >>,
   enums |-> <<>>]

\* namespace n { struct A { B * q; }; }
\* namespace m { enum A { a1, a0 }; }
\* class C : public A, public Z, public n::A {
\*   AB x; int y;
\*  public:
\*   enum E { e1, e0 };
\*   void f(AB a, C * c);
\*   int g(E v) const;
\* };
HeaderB ==
  [classes |-> <<
     <<<<"A">>, CppClass(TXT_struct, <<"n">>, <<>>,
                [NoMembers EXCEPT !.public = <<CppVariable(<<"q">>, <<"B", " ", "*">>)>>],
                NoMembers, NoMembers)>>,
     <<<<"C">>, CppClass(TXT_class, <<>>, <<<<"A">>, <<"Z">>, <<"n", ":", ":", "A">>>>,
                [NoMembers EXCEPT !.private =
                   <<CppVariable(<<"x">>, <<"A", "B">>), CppVariable(<<"y">>, <<"i", "n", "t">>)>>],
                [NoMembers EXCEPT !.public =
                   <<CppMethod(<<"f">>, <<"v", "o", "i", "d">>,
                               <<[type |-> <<"A", "B">>, name |-> <<"a">>],
                                 [type |-> <<"C", " ", "*">>, name |-> <<"c">>]>>, FALSE),
                     CppMethod(<<"g">>, <<"i", "n", "t">>, <<[type |-> <<"E">>, name |-> <<"v">>]>>,
                               TRUE)>>],
                [NoMembers EXCEPT !.public =
                   <<[name |-> <<"E">>, namespace |-> <<>>,
                      values |-> <<[name |-> <<"e", "1">>], [name |-> <<"e", "0">>]>>]>>])>> >>,
   enums |-> <<[name |-> <<"A">>, namespace |-> <<"m", ":", ":">>,
                values |-> <<[name |-> <<"a", "1">>], [name |-> <<"a", "0">>]>>]>>]

\* the header texts a call may be given; "Hbad" is malformed
HeaderTexts == {"HA", "HB", "Hbad"}

\* the header files a call may be given
HeaderFiles == {"a.hpp", "b.hpp", "bad.hpp"}

\* the text a header file holds
FileContent(f) ==
  CASE f = "a.hpp" -> "HA" [] f = "b.hpp" -> "HB" [] f = "bad.hpp" -> "Hbad"

\* the header text CppHeader parses
HeaderTextOf(header_file, arg_type) ==
  IF arg_type = "string" THEN header_file ELSE FileContent(header_file)

\* CppHeaderParser.CppHeader(header_file, argType=arg_type) raises
CppHeaderRaises(header_file, arg_type) == HeaderTextOf(header_file, arg_type) = "Hbad"

\* CppHeaderParser.CppHeader(header_file, argType=arg_type), when it returns
CppHeader(header_file, arg_type) ==
  LET text == HeaderTextOf(header_file, arg_type)
  IN  CASE text = "HA" -> HeaderA [] text = "HB" -> HeaderB

(***************************************************************************)
(* Ingestion.                                                              *)
(***************************************************************************)
\* the nested enums of one class, by scope (the inner loops of parse_objects)
NestedEnums(obj_c, obj_n) ==
  IF "enums" \in DOMAIN obj_n
  THEN Flatten([m \in 1..3 |->
                  LET enums == obj_n.enums[MEMBER_PROP_KEYS[m]]
                  IN  [e \in 1..Len(enums) |->
                         LET enum_c == Enum(enums[e], obj_c.name)
                         IN  [enum_c EXCEPT !.name = obj_c.name \o ColonColon \o enum_c.name]]])
  ELSE <<>>

\* the objects parse_objects appends for one parsed header: CONTAINER_TYPE_MAP
\* gives the classes, then the enums
ParsedObjects(parsed_header) ==
  Flatten([i \in 1..Len(parsed_header.classes) |->
             LET obj == parsed_header.classes[i]
                 obj_c == Class(obj)
             IN  <<obj_c>> \o NestedEnums(obj_c, obj[2])]) \o
  Flatten([i \in 1..Len(parsed_header.enums) |->
             LET obj == parsed_header.enums[i]
                 obj_c == Enum(obj, None)
             IN  <<obj_c>> \o NestedEnums(obj_c, obj)])

\* what parse_objects appends for each header text the parser accepts
Objects ==
  [text \in HeaderTexts \ {"Hbad"} |-> ParsedObjects(CppHeader(text, "string"))]

\* the headers at hand, each with what parse_objects makes of it; they stay as
\* they are while the Diagram is used
VARIABLE headers

\* the body of parse_objects after the parser has returned
ObjectsOf(header_file, arg_type) == headers[HeaderTextOf(header_file, arg_type)]

\* Diagram.parse_objects: the diagram after the call and whether it raised
parse_objects(d, header_file, arg_type) ==
  IF CppHeaderRaises(header_file, arg_type)
  THEN [d |-> d, raised |-> TRUE]
  ELSE [d |-> [d EXCEPT !.objects = @ \o ObjectsOf(header_file, arg_type)],
        raised |-> FALSE]

\* the loop of _build_helper catching the error of an input and going on with
\* the next one, a fault seeded to show what the error property depends on
RECURSIVE ParseEach_past_errors(_, _, _)
ParseEach_past_errors(d, data_in, build_from_single) ==
  IF data_in = <<>> THEN [d |-> d, raised |-> FALSE]
  ELSE LET r == parse_objects(d, Head(data_in), build_from_single)
           rest == ParseEach_past_errors(r.d, Tail(data_in), build_from_single)
       IN  [d |-> rest.d, raised |-> r.raised \/ rest.raised]

\* the loop of _build_helper giving back the Diagram it was given when an input
\* raises, the objects of the inputs before it dropped
RECURSIVE ParseEach_rolling_back(_, _, _)
ParseEach_rolling_back(d, data_in, build_from_single) ==
  IF data_in = <<>> THEN [d |-> d, raised |-> FALSE]
  ELSE LET r == parse_objects(d, Head(data_in), build_from_single)
           rest == ParseEach_rolling_back(r.d, Tail(data_in), build_from_single)
       IN  IF r.raised THEN r
           ELSE IF rest.raised THEN [d |-> d, raised |-> TRUE]
           ELSE rest

\* the loop of _build_helper over a list: it ends at the first input that
\* raises
RECURSIVE ParseEach(_, _, _)
ParseEach(d, data_in, build_from_single) ==
  IF data_in = <<>> THEN [d |-> d, raised |-> FALSE]
  ELSE LET r == parse_objects(d, Head(data_in), build_from_single)
       IN  IF r.raised THEN r ELSE ParseEach(r.d, Tail(data_in), build_from_single)

\* _build_helper without the clear() of flag_reset, a fault seeded to show what
\* the create property depends on
_build_helper_without_reset(d, data_in, build_from, flag_build_lists, flag_reset) ==
  LET r == IF build_from \in {"string", "file"}
           THEN parse_objects(d, data_in, build_from)
           ELSE ParseEach(d, data_in, IF build_from = "string_list" THEN "string" ELSE "file")
  IN  IF r.raised THEN r
      ELSE IF flag_build_lists
           THEN [d |-> sort_elements(build_relationship_lists(r.d)), raised |-> FALSE]
           ELSE r

\* _build_helper building and sorting whatever flag_build_lists, a fault seeded
\* to show what the add property depends on
_build_helper_always_building(d, data_in, build_from, flag_build_lists, flag_reset) ==
  LET d1 == IF flag_reset THEN clear(d) ELSE d
      r == IF build_from \in {"string", "file"}
           THEN parse_objects(d1, data_in, build_from)
           ELSE ParseEach(d1, data_in, IF build_from = "string_list" THEN "string" ELSE "file")
  IN  IF r.raised THEN r
      ELSE [d |-> sort_elements(build_relationship_lists(r.d)), raised |-> FALSE]

\* Diagram._build_helper: the diagram after the call and whether it raised
_build_helper(d, data_in, build_from, flag_build_lists, flag_reset) ==
  LET d1 == IF flag_reset THEN clear(d) ELSE d
      r == IF build_from \in {"string", "file"}
           THEN parse_objects(d1, data_in, build_from)
           ELSE ParseEach(d1, data_in, IF build_from = "string_list" THEN "string" ELSE "file")
  IN  IF r.raised THEN r
      ELSE IF flag_build_lists
           THEN [d |-> sort_elements(build_relationship_lists(r.d)), raised |-> FALSE]
           ELSE r


(***************************************************************************)
(* State.                                                                  *)
(***************************************************************************)
VARIABLES
  objects,            \* Diagram._objects
  inheritance_list,   \* Diagram._inheritance_list
  aggregation_list,   \* Diagram._aggregation_list
  dependency_list,    \* Diagram._dependency_list
  nesting_list,       \* Diagram._nesting_list
  flag_dep,           \* Diagram._flag_dep
  template_file,      \* Diagram._template_file
  lastOp,             \* the last call made on the Diagram but render(), and whether it raised
  log,                \* the header texts ingested since the Diagram was last empty
  path,               \* the shape of the calls made since the Diagram was last empty
  stdout,             \* what print() has written to the standard output
  file_text,          \* the text of each output file, <<>> while it is not written
  calls,              \* the CreatePlantUMLFile calls made, with their arguments
  declaration,        \* the class declaration at hand, as the parser gives it
  entity,             \* the Class object made of it, <<>> before it is made
  entity_text,        \* what the Class object rendered as, <<>> before it is rendered
  render_out,         \* what the last render() calls gave, the latest first and one
                      \* before it, <<>> unless render() was the last call
  type_str,           \* the type text at hand, as the parser gives it
  type_out            \* what _cleanup_type returned, call after call

vars == <<objects, inheritance_list, aggregation_list, dependency_list, nesting_list,
          flag_dep, template_file, lastOp, log, path, headers, stdout, file_text, calls,
          declaration, entity, entity_text, render_out,
          type_str, type_out>>

\* the Diagram object as a value
Self ==
  [objects |-> objects, inheritance_list |-> inheritance_list,
   aggregation_list |-> aggregation_list, dependency_list |-> dependency_list,
   nesting_list |-> nesting_list, flag_dep |-> flag_dep]

\* the Diagram object becomes d; no method assigns the template
Becomes(d) ==
  /\ objects' = d.objects
  /\ inheritance_list' = d.inheritance_list
  /\ aggregation_list' = d.aggregation_list
  /\ dependency_list' = d.dependency_list
  /\ nesting_list' = d.nesting_list
  /\ flag_dep' = d.flag_dep
  /\ UNCHANGED template_file

\* the lists of at most MaxLog distinct inputs drawn from S
ListsOf(S) ==
  UNION {{l \in [1..n -> S] : \A i, j \in 1..n : l[i] = l[j] => i = j} : n \in 0..MaxLog}

\* the header texts a call is given, in order
TextsOf(data_in, build_from) ==
  CASE build_from = "string" -> <<data_in>>
    [] build_from = "file" -> <<FileContent(data_in)>>
    [] build_from = "string_list" -> data_in
    [] build_from = "file_list" -> [i \in 1..Len(data_in) |-> FileContent(data_in[i])]

\* the texts of a call that were ingested: those before the first malformed
RECURSIVE Ingested(_)
Ingested(texts) ==
  IF texts = <<>> \/ Head(texts) = "Hbad" THEN <<>>
  ELSE <<Head(texts)>> \o Ingested(Tail(texts))

\* the shape of the call history after one more call: "created_file" after
\* create_from_file, "adding" while only add_from_file / add_from_string have
\* followed a new Diagram or create_from_file, "built" and "sorted" after the
\* explicit build_relationship_lists() and sort_elements() that follow them
NextPath(op, raised) ==
  IF raised THEN "mixed"
  ELSE CASE op = "create_from_file" -> "created_file"
         [] op \in {"create_from_file_list", "create_from_string",
                    "create_from_string_list"} -> "created"
         [] op \in {"add_from_file", "add_from_string"} ->
              IF path \in {"new", "created_file", "adding"} THEN "adding" ELSE "mixed"
         [] op \in {"add_from_file_list", "add_from_string_list"} -> "mixed"
         [] op = "build_relationship_lists" ->
              IF path \in {"new", "created_file", "adding"} THEN "built" ELSE "mixed"
         [] op = "sort_elements" -> IF path = "built" THEN "sorted" ELSE "mixed"
         [] op = "clear" -> "new"

\* the record of a call: its name and whether it raised, and what the
\* properties need of the calls before it:
\*   after_add    it was made right after an add_from_* call that returned, on
\*                objects newer than the relationship lists
\*   after_clear  it is a create_from_* call made right after clear()
\*   again        it is a sort_elements() made right after a sort_elements()
\*   rebuilt      it is the build_relationship_lists() made right after a
\*                create_from_* call that returned, or the sort_elements() made
\*                right after that build_relationship_lists()
\*   skipped      it raised on a source unit that was not the last of its list
Record(op, raised, skipped) ==
  /\ lastOp' = [op |-> op, raised |-> raised,
                after_add |-> (lastOp.op \in {"add_from_file", "add_from_file_list",
                                              "add_from_string", "add_from_string_list"}
                               /\ ~lastOp.raised),
                after_clear |-> (lastOp.op = "clear"
                                 /\ op \in {"create_from_file", "create_from_file_list",
                                            "create_from_string", "create_from_string_list"}),
                again |-> (op = "sort_elements" /\ lastOp.op = "sort_elements"),
                rebuilt |-> \/ /\ op = "build_relationship_lists"
                               /\ lastOp.op \in {"create_from_file", "create_from_file_list",
                                                 "create_from_string",
                                                 "create_from_string_list"}
                               /\ ~lastOp.raised
                            \/ /\ op = "sort_elements"
                               /\ lastOp.op = "build_relationship_lists"
                               /\ lastOp.rebuilt,
                skipped |-> skipped]
  /\ path' = NextPath(op, raised)
  /\ render_out' = <<>>
  /\ UNCHANGED <<headers, stdout, file_text, calls, declaration, entity, entity_text,
                 type_str, type_out>>

\* the record of a call that takes no source
Called(op, raised) == Record(op, raised, FALSE)

\* the bound of the exploration: a call is made only while the header texts
\* ingested stay within MaxLog
Fits(data_in, build_from, flag_reset) ==
  Len(TextsOf(data_in, build_from)) + (IF flag_reset THEN 0 ELSE Len(log)) <= MaxLog

\* the body shared by the eight ingestion calls, all wrappers around
\* _build_helper
Ingest(op, data_in, build_from, flag_build_lists, flag_reset) ==
  /\ \E r \in {_build_helper(Self, data_in, build_from, flag_build_lists, flag_reset)} :
       /\ Becomes(r.d)
       /\ Record(op, r.raised,
                 r.raised /\ Len(Ingested(TextsOf(data_in, build_from))) + 1 <
                               Len(TextsOf(data_in, build_from)))
  /\ log' = (IF flag_reset THEN <<>> ELSE log) \o Ingested(TextsOf(data_in, build_from))

\* Diagram.__init__: self._template_file for template_file=None and for a
\* template of the caller
TemplateFiles == {"default.puml", "custom.puml"}

\* the output files CreatePlantUMLFile may be given
OutputFiles == {"output.puml"}

\* nothing printed, no output file written, CreatePlantUMLFile not called,
\* render() not called
NoOutput ==
  /\ stdout = <<>>
  /\ file_text = [f \in OutputFiles |-> <<>>]
  /\ calls = <<>>
  /\ render_out = <<>>

\* no Class object made, nothing rendered, no type text cleaned
NoEntity ==
  /\ entity = <<>>
  /\ entity_text = <<>>
  /\ type_str = <<>>
  /\ type_out = <<>>

Init ==
  /\ flag_dep \in BOOLEAN
  /\ objects = <<>>
  /\ inheritance_list = <<>>
  /\ aggregation_list = <<>>
  /\ dependency_list = <<>>
  /\ nesting_list = <<>>
  /\ template_file \in TemplateFiles
  /\ lastOp = [op |-> "__init__", raised |-> FALSE, after_add |-> FALSE,
               after_clear |-> FALSE, again |-> FALSE, rebuilt |-> FALSE,
               skipped |-> FALSE]
  /\ log = <<>>
  /\ path = "new"
  /\ headers = Objects
  /\ NoOutput
  /\ declaration = <<>>
  /\ NoEntity

create_from_file ==
  \E header_file \in HeaderFiles :
    /\ Fits(header_file, "file", TRUE)
    /\ Ingest("create_from_file", header_file, "file", TRUE, TRUE)

create_from_file_list ==
  \E file_list \in ListsOf(HeaderFiles) :
    /\ Fits(file_list, "file_list", TRUE)
    /\ Ingest("create_from_file_list", file_list, "file_list", TRUE, TRUE)

add_from_file ==
  \E header_file \in HeaderFiles :
    /\ Fits(header_file, "file", FALSE)
    /\ Ingest("add_from_file", header_file, "file", FALSE, FALSE)

add_from_file_list ==
  \E file_list \in ListsOf(HeaderFiles) :
    /\ Fits(file_list, "file_list", FALSE)
    /\ Ingest("add_from_file_list", file_list, "file_list", FALSE, FALSE)

create_from_string ==
  \E header_string \in HeaderTexts :
    /\ Fits(header_string, "string", TRUE)
    /\ Ingest("create_from_string", header_string, "string", TRUE, TRUE)

create_from_string_list ==
  \E string_list \in ListsOf(HeaderTexts) :
    /\ Fits(string_list, "string_list", TRUE)
    /\ Ingest("create_from_string_list", string_list, "string_list", TRUE, TRUE)

add_from_string ==
  \E header_string \in HeaderTexts :
    /\ Fits(header_string, "string", FALSE)
    /\ Ingest("add_from_string", header_string, "string", FALSE, FALSE)

add_from_string_list ==
  \E string_list \in ListsOf(HeaderTexts) :
    /\ Fits(string_list, "string_list", FALSE)
    /\ Ingest("add_from_string_list", string_list, "string_list", FALSE, FALSE)

BuildRelationshipLists ==
  /\ Becomes(build_relationship_lists(Self))
  /\ Called("build_relationship_lists", FALSE)
  /\ UNCHANGED log

SortElements ==
  /\ Becomes(sort_elements(Self))
  /\ Called("sort_elements", FALSE)
  /\ UNCHANGED log

Clear ==
  /\ Becomes(clear(Self))
  /\ Called("clear", FALSE)
  /\ log' = <<>>

Next ==
  \/ create_from_file
  \/ create_from_file_list
  \/ add_from_file
  \/ add_from_file_list
  \/ create_from_string
  \/ create_from_string_list
  \/ add_from_string
  \/ add_from_string_list
  \/ BuildRelationshipLists
  \/ SortElements
  \/ Clear

Spec == Init /\ [][Next]_vars

(***************************************************************************)
(* The main function, CreatePlantUMLFile, on a directory that holds the    *)
(* header files.                                                           *)
(***************************************************************************)
\* how many times CreatePlantUMLFile is called
MaxCalls == 1

\* glob.glob(input_file, recursive=True) in the directory of HeaderFiles
glob(input_file) ==
  CASE input_file \in HeaderFiles -> <<input_file>>
    [] input_file = "[ab].hpp" -> <<"a.hpp", "b.hpp">>
    [] OTHER -> <<>>

\* expand_file_list
expand_file_list(input_files) ==
  Flatten([i \in 1..Len(input_files) |-> glob(input_files[i])])

\* list(set(l)): the elements of l, each once, in an order that the hashes of
\* the strings decide, and these change from one run to the next
ListOfSet(l) ==
  LET S == {l[i] : i \in 1..Len(l)}
  IN  {o \in [1..Cardinality(S) -> S] : \A i, j \in DOMAIN o : o[i] = o[j] => i = j}

\* the file_list arguments of the calls made: a str, or a list of str
FileListArgs ==
  {[is_str |-> TRUE, value |-> f] : f \in {"a.hpp", "[ab].hpp"}} \cup
  {[is_str |-> FALSE, value |-> l] :
     l \in {<<>>, <<"a.hpp">>, <<"b.hpp">>, <<"a.hpp", "b.hpp">>, <<"b.hpp", "a.hpp">>,
            <<"a.hpp", "a.hpp">>, <<"[ab].hpp", "b.hpp">>, <<"none.hpp">>,
            <<"none.hpp", "b.hpp">>, <<"bad.hpp">>, <<"[ab].hpp", "bad.hpp">>}}

\* the output_file arguments of the calls made: None, or the name of a file
OutputFileArgs == {<<>>} \cup {<<f>> : f \in OutputFiles}

\* before the call: the template and the flag the caller is going to pass,
\* nothing printed and nothing written
MainInit == Init

\* CreatePlantUMLFile(file_list, output_file, template_file=..., flag_dep=...);
\* the Diagram it makes is the one of the state, made with the template and
\* the flag of the state
CreatePlantUMLFile ==
  \E file_list \in FileListArgs, output_file \in OutputFileArgs :
    /\ Len(calls) < MaxCalls
    /\ LET file_list_c == IF file_list.is_str THEN <<file_list.value>> ELSE file_list.value
       IN  \E files \in ListOfSet(expand_file_list(file_list_c)) :
             \E r \in {_build_helper(NewDiagram(flag_dep), files, "file_list", TRUE, TRUE)} :
               /\ Becomes(r.d)
               /\ log' = Ingested(TextsOf(files, "file_list"))
               /\ lastOp' = [lastOp EXCEPT !.op = "CreatePlantUMLFile",
                                           !.raised = r.raised]
               /\ calls' = Append(calls, [file_list |-> file_list,
                                          output_file |-> output_file])
               /\ IF r.raised
                  THEN UNCHANGED <<stdout, file_text>>
                  ELSE IF output_file = <<>>
                       THEN /\ stdout' = stdout \o <<render(r.d), <<"\n">>>>
                            /\ UNCHANGED file_text
                       ELSE /\ file_text' = [file_text EXCEPT ![output_file[1]] =
                                                                <<render(r.d)>>]
                            /\ UNCHANGED stdout
               /\ UNCHANGED <<path, headers, declaration, entity, entity_text, render_out,
                              type_str, type_out>>

MainNext == CreatePlantUMLFile

MainSpec == MainInit /\ [][MainNext]_vars

(***************************************************************************)
(* A Class object on its own: made of a class declaration, sorted and      *)
(* rendered, as the tests of the repository do it.                         *)
(***************************************************************************)
\* the member variables a declaration may have, as the parser gives them:
\*   public:    int member;
\*   private:   static B * ptr;
\*   protected: char buf[8];
VariablePool ==
  <<[scope |-> "public", member |-> CppVariable(<<"m", "e", "m", "b", "e", "r">>, <<"i", "n", "t">>)],
    [scope |-> "private",
     member |-> [CppVariable(<<"p", "t", "r">>, <<"B", " ", "*">>) EXCEPT !.static = TRUE]],
    [scope |-> "protected",
     member |-> [CppVariable(<<"b", "u", "f">>, <<"c", "h", "a", "r">>) EXCEPT !.array = TRUE]]>>

\* the member functions a declaration may have, as the parser gives them:
\*   public:    int & func(int * a, B b);
\*   protected: static void count(int & a);
\*   private:   virtual int * get() const = 0;
\*   public:    ~Test();
\*   public:    Test(const Test &) = delete;
MethodPool ==
  <<[scope |-> "public",
     member |-> [CppMethod(<<"f", "u", "n", "c">>, <<"i", "n", "t">>,
                           <<[type |-> <<"i", "n", "t", " ", "*">>, name |-> <<"a">>],
                             [type |-> <<"B">>, name |-> <<"b">>]>>, FALSE)
                   EXCEPT !.returns_reference = TRUE]],
    [scope |-> "protected",
     member |-> [CppMethod(<<"c", "o", "u", "n", "t">>, <<"v", "o", "i", "d">>,
                           <<[type |-> <<"i", "n", "t", " ", "&">>, name |-> <<"a">>]>>, FALSE)
                   EXCEPT !.static = TRUE]],
    [scope |-> "private",
     member |-> [CppMethod(<<"g", "e", "t">>, <<"i", "n", "t">>, <<>>, TRUE)
                   EXCEPT !.returns_pointer = TRUE, !.pure_virtual = TRUE]],
    [scope |-> "public",
     member |-> [CppMethod(<<"T", "e", "s", "t">>, <<>>, <<>>, FALSE) EXCEPT !.destructor = TRUE]],
    [scope |-> "public",
     member |-> [CppMethod(<<"T", "e", "s", "t">>, <<>>,
                           <<[type |-> <<"c", "o", "n", "s", "t", " ", "T", "e", "s", "t", " ", "&">>, name |-> <<>>]>>, FALSE)
                   EXCEPT !.deleted = TRUE]]>>

\* the members of a pool that a declaration has in one scope, in their order
PoolMembers(pool, chosen, scope) ==
  LET picked == SelectSeq([i \in 1..Len(pool) |-> i],
                          LAMBDA i : i \in chosen /\ pool[i].scope = scope)
  IN  [k \in 1..Len(picked) |-> pool[picked[k]].member]

\* the pair (name, CppClass) the parser gives for
\*   [template <typename T>] class|struct|union Test { ... };
\* with the chosen members; the class is abstract when it has a pure virtual
\* member function
CppClassOf(declaration_method, templated, variables, methods) ==
  LET by_scope(pool, chosen) ==
        [private |-> PoolMembers(pool, chosen, "private"),
         public |-> PoolMembers(pool, chosen, "public"),
         protected |-> PoolMembers(pool, chosen, "protected")]
      class == [CppClass(declaration_method, <<>>, <<>>,
                         by_scope(VariablePool, variables),
                         by_scope(MethodPool, methods), NoMembers)
                  EXCEPT !.abstract = \E i \in methods : MethodPool[i].member.pure_virtual]
  IN  <<<<"T", "e", "s", "t">>,
        IF templated
        THEN class @@ [template |-> <<"t", "e", "m", "p", "l", "a", "t", "e", " ", "<",
                                      "t", "y", "p", "e", "n", "a", "m", "e", " ", "T", ">">>]
        ELSE class>>

\* the class declarations at hand
Declarations ==
  {CppClassOf(declaration_method, templated, variables, methods) :
     declaration_method \in {TXT_class, TXT_struct, TXT_union},
     templated \in BOOLEAN,
     variables \in SUBSET DOMAIN VariablePool,
     methods \in SUBSET DOMAIN MethodPool}

\* the Diagram is left alone
NoDiagram ==
  /\ flag_dep = FALSE
  /\ template_file = "default.puml"
  /\ objects = <<>>
  /\ inheritance_list = <<>>
  /\ aggregation_list = <<>>
  /\ dependency_list = <<>>
  /\ nesting_list = <<>>
  /\ lastOp = [op |-> "__init__", raised |-> FALSE, after_add |-> FALSE,
               after_clear |-> FALSE, again |-> FALSE, rebuilt |-> FALSE,
               skipped |-> FALSE]
  /\ log = <<>>
  /\ path = "new"
  /\ headers = Objects
  /\ NoOutput

EntityInit ==
  /\ declaration \in Declarations
  /\ NoEntity
  /\ NoDiagram

\* the declaration stays the same, and no Diagram is used
EntityOnly ==
  UNCHANGED <<objects, inheritance_list, aggregation_list, dependency_list,
              nesting_list, flag_dep, template_file, lastOp, log, path, headers,
              stdout, file_text, calls, declaration, render_out, type_str, type_out>>

\* obj = Class(declaration)
ClassInit ==
  /\ entity = <<>>
  /\ entity' = <<[obj |-> Class(declaration), sorted |-> FALSE]>>
  /\ UNCHANGED entity_text
  /\ EntityOnly

\* obj.sort_members()
ClassSortMembers ==
  /\ entity # <<>>
  /\ entity' = <<[obj |-> SortMembers(entity[1].obj), sorted |-> TRUE]>>
  /\ UNCHANGED entity_text
  /\ EntityOnly

\* obj.render(); the assertion of ClassMethod._render_name ends the call
ClassRender ==
  /\ entity # <<>>
  /\ entity_text' =
       IF \A i \in 1..Len(entity[1].obj.member_list) :
            entity[1].obj.member_list[i].cls = "ClassMethod" =>
              MethodAssertion(entity[1].obj.member_list[i])
       THEN <<[text |-> ContainerRender(entity[1].obj), of |-> entity[1].obj,
               sorted |-> entity[1].sorted]>>
       ELSE <<[text |-> <<"AssertionError">>, of |-> entity[1].obj,
               sorted |-> entity[1].sorted]>>
  /\ UNCHANGED entity
  /\ EntityOnly

EntityNext ==
  \/ ClassInit
  \/ ClassSortMembers
  \/ ClassRender

EntitySpec == EntityInit /\ [][EntityNext]_vars

(***************************************************************************)
(* render() among the calls made on a Diagram.                             *)
(***************************************************************************)
\* Diagram.render
Render ==
  \E found \in TemplateFound(template_file) :
    \E r \in {RenderCall(Self, found)} :
      /\ Becomes(r.d)
      /\ render_out' = <<[error |-> r.error, tree |-> r.tree, text |-> r.text]>> \o
                        (IF render_out = <<>> THEN <<>> ELSE <<render_out[1]>>)
      /\ UNCHANGED <<lastOp, log, path, headers, stdout, file_text, calls,
                     declaration, entity, entity_text, type_str, type_out>>

RenderNext ==
  \/ Next
  \/ Render

RenderSpec == Init /\ [][RenderNext]_vars

(***************************************************************************)
(* render() on a Diagram whose objects are spread over nested namespaces.  *)
(***************************************************************************)
\* how many objects the Diagram holds at most
MaxObjects == 3

\* the namespaces the classes are declared in
NamespacePool ==
  {<<>>, <<"a">>, <<"b">>, <<"a", ":", ":", "b">>, <<"b", ":", ":", "c">>,
   <<"a", ":", ":", "b", ":", ":", "c">>}

\* class T {}; declared in the namespace
ClassIn(namespace) ==
  Class(<<<<"T">>, CppClass(TXT_class, namespace, <<>>, NoMembers, NoMembers, NoMembers)>>)

\* a Diagram after add_from_string() on a header that declares up to
\* MaxObjects classes without members, each in a namespace of the pool
TreeInit ==
  /\ objects \in UNION {[1..n -> {ClassIn(ns) : ns \in NamespacePool}] : n \in 0..MaxObjects}
  /\ inheritance_list = <<>>
  /\ aggregation_list = <<>>
  /\ dependency_list = <<>>
  /\ nesting_list = <<>>
  /\ flag_dep = FALSE
  /\ template_file = "default.puml"
  /\ lastOp = [op |-> "add_from_string", raised |-> FALSE, after_add |-> FALSE,
               after_clear |-> FALSE, again |-> FALSE, rebuilt |-> FALSE,
               skipped |-> FALSE]
  /\ log = <<>>
  /\ path = "adding"
  /\ headers = Objects
  /\ NoOutput
  /\ declaration = <<>>
  /\ NoEntity

TreeSpec == TreeInit /\ [][Render]_vars

(***************************************************************************)
(* A Diagram given one class declaration of a header the parser accepts.   *)
(***************************************************************************)
\* the names the parser gives a class: a plain one, one of a template
\* specialisation, one of a struct without a name
DeclaredNames ==
  {<<"T">>, <<"V", "<", "i", "n", "t", ">">>,
   <<"<", "a", "n", "o", "n", "-", "s", "t", "r", "u", "c", "t", "-", "1", ">">>}

\* the class declarations: the class has no method, or the method
\* `void f();` with the static and pure_virtual flags as the parser sets
\* them, each from what the declaration is written with (`static`, `= 0`);
\* it has no nested enum, or `enum E { e1 };`
DeclaredClasses ==
  {<<name,
     [CppClass(TXT_class, namespace, <<>>, NoMembers,
               [NoMembers EXCEPT !.public =
                  IF method = <<>> THEN <<>>
                  ELSE <<[CppMethod(<<"f">>, <<"v", "o", "i", "d">>, <<>>, FALSE)
                            EXCEPT !.static = method[1], !.pure_virtual = method[2]]>>],
               [NoMembers EXCEPT !.public =
                  IF nested THEN <<[name |-> <<"E">>, namespace |-> <<>>,
                                    values |-> <<[name |-> <<"e", "1">>]>>]>>
                  ELSE <<>>])
        EXCEPT !.abstract = (method # <<>> /\ method[2])]>> :
     name \in DeclaredNames,
     namespace \in {<<>>, <<"n">>},
     method \in {<<>>} \cup (BOOLEAN \X BOOLEAN),
     nested \in BOOLEAN}

DeclaredInit ==
  /\ declaration \in DeclaredClasses
  /\ NoEntity
  /\ NoDiagram

\* add_from_string() on the header that holds the declaration
AddDeclared ==
  /\ objects = <<>>
  /\ Becomes([Self EXCEPT !.objects =
                @ \o ParsedObjects([classes |-> <<declaration>>, enums |-> <<>>])])
  /\ Record("add_from_string", FALSE, FALSE)
  /\ UNCHANGED log

DeclaredSpec == DeclaredInit /\ [][AddDeclared \/ Render]_vars

(***************************************************************************)
(* _cleanup_type on the type texts of members and parameters.              *)
(***************************************************************************)
\* the longest type text
MaxTypeLen == 4

\* the type texts: a letter, the three kinds of whitespace the parser leaves
\* in a type, and the characters _cleanup_type looks for
TypeTexts ==
  UNION {[1..n -> {"a", " ", "\t", "\n", "*", "&", "<", ">"}] : n \in 0..MaxTypeLen}

TypeInit ==
  /\ type_str \in TypeTexts
  /\ type_out = <<>>
  /\ entity = <<>>
  /\ entity_text = <<>>
  /\ declaration = <<>>
  /\ NoDiagram

\* _cleanup_type(type_str), then _cleanup_type of what it returned
CleanupType ==
  /\ Len(type_out) < 2
  /\ type_out' = Append(type_out, _cleanup_type(IF type_out = <<>> THEN type_str
                                                ELSE type_out[Len(type_out)]))
  /\ UNCHANGED <<objects, inheritance_list, aggregation_list, dependency_list,
                 nesting_list, flag_dep, template_file, lastOp, log, path, headers,
                 stdout, file_text, calls, declaration, entity, entity_text,
                 render_out, type_str>>

TypeSpec == TypeInit /\ [][CleanupType]_vars

(***************************************************************************)
(* Properties.                                                             *)
(***************************************************************************)
CreateOps ==
  {"create_from_file", "create_from_file_list", "create_from_string",
   "create_from_string_list"}

AddOps ==
  {"add_from_file", "add_from_file_list", "add_from_string", "add_from_string_list"}

\* the last call built the relationship lists from the objects now held
Built ==
  \/ lastOp.op \in CreateOps /\ ~lastOp.raised
  \/ lastOp.op = "build_relationship_lists"

\* header files holding the given texts
FilesOf(texts) ==
  [i \in 1..Len(texts) |-> CHOOSE f \in HeaderFiles : FileContent(f) = texts[i]]

\* create_from_file_list / create_from_string_list on a new Diagram
FromFileList(flag, file_list) ==
  _build_helper(NewDiagram(flag), file_list, "file_list", TRUE, TRUE).d

FromStringList(flag, string_list) ==
  _build_helper(NewDiagram(flag), string_list, "string_list", TRUE, TRUE).d

\* the orderings of a list
PermutationsOf(list) ==
  {[i \in 1..Len(list) |-> list[f[i]]] : f \in Permutations(1..Len(list))}

\* the member variables of an object
Variables(obj) == SelectSeq(obj.member_list, LAMBDA m : m.cls = "ClassVariable")

\* how many of the variables of obj have name as a whole word of their type,
\* as a pointer `name*` (pointer = TRUE) or otherwise (pointer = FALSE)
Holding(obj, name, pointer) ==
  Cardinality({v \in 1..Len(Variables(obj)) :
                 /\ WordSearch(name, Variables(obj)[v].type)
                 /\ Contains(name \o <<"*">>, Variables(obj)[v].type) = pointer})

\* the names of the objects held
Names == {objects[i].name : i \in 1..Len(objects)}

\* the edges of the aggregation list from obj to the name owned
EdgesFrom(obj, owned) ==
  {k \in 1..Len(aggregation_list) :
     /\ aggregation_list[k].parent = obj.name
     /\ aggregation_list[k].parent_namespace = obj.namespace
     /\ aggregation_list[k].child = owned}

\* a name as a link shows it: the namespace, "::" turned to ".", then the name
LinkName(name, namespace) ==
  IF namespace = <<>> THEN name
  ELSE Join(<<".">>, SplitOn(ColonColon, namespace)) \o <<".">> \o name

\* C1: for any list of sources the three ingestion paths give the same
\* rendered output: create_from_file_list; add_from_file / add_from_string
\* calls, optionally after create_from_file on the first source, then
\* build_relationship_lists() and sort_elements(); create_from_string_list.
C1_IngestionPathsAgree ==
  /\ path = "sorted" =>
       /\ render(Self) = render(FromFileList(flag_dep, FilesOf(log)))
       /\ render(Self) = render(FromStringList(flag_dep, log))
  /\ (lastOp.op = "create_from_file_list" /\ ~lastOp.raised) =>
       render(Self) = render(FromStringList(flag_dep, log))

\* C2: create_from_file_list followed by sort_elements gives the same entity
\* order, the same four relationship lists and the same rendered output for
\* every two orderings of a set of files, with the dependency flag on or off
\* and with entities sharing a plain name.
C2_OrderIndependence ==
  (lastOp.op = "create_from_file_list" /\ ~lastOp.raised) =>
    \A file_list \in PermutationsOf(FilesOf(log)) :
       LET this == sort_elements(Self)
           other == sort_elements(FromFileList(flag_dep, file_list))
       IN  this = other /\ render(this) = render(other)

\* C3: in a Diagram made with the dependency flag off the dependency list is
\* empty in every reachable state; dependency edges are there only when the
\* flag is on.
C3_NoDependencyWhenDisabled == ~flag_dep => dependency_list = <<>>

\* build_relationship_lists() has run with the flag off on objects whose
\* methods take parameters of entity types
C3_Witness ==
  /\ ~flag_dep
  /\ lastOp.op = "build_relationship_lists"
  /\ build_dependency_list(Self).dependency_list # <<>>
  /\ dependency_list = <<>>

C6_SingleEdgeWithTotalCount ==
  Built =>
    \A i \in 1..Len(objects) : \A owned \in Names :
       LET owner == objects[i]
           pointers == Holding(owner, owned, TRUE)
           values == Holding(owner, owned, FALSE)
       IN  (owner.cls = "Class" /\ pointers > 0 /\ values > 0) =>
             /\ Cardinality(EdgesFrom(owner, owned)) = 1
             /\ \A k \in EdgesFrom(owner, owned) :
                  aggregation_list[k].count = pointers + values

\* C7: build_aggregation_list emits exactly one relationship per (owner
\* entity, owned type, kind), its count the number of the owner's own
\* variables whose type has the owned name as a whole word, also when two
\* entities in different namespaces share a plain name.
C7_OneEdgePerTripleWithOwnCount ==
  Built =>
    \A i \in 1..Len(objects) : \A owned \in Names : \A pointer \in BOOLEAN :
       LET owner == objects[i]
           kind == IF pointer THEN TXT_aggregation ELSE TXT_composition
           count == IF owner.cls = "Class" THEN Holding(owner, owned, pointer) ELSE 0
           edges == {k \in EdgesFrom(owner, owned) : aggregation_list[k].link_type = kind}
       IN  IF count > 0
           THEN /\ Cardinality(edges) = 1
                /\ \A k \in edges : aggregation_list[k].count = count
           ELSE edges = {}

\* C8: a variable holding an entity type T by value yields a composition, one
\* whose type contains `T*` an aggregation; the edge renders as
\* `Owner *-- T` or `Owner o-- T`, after `"<count>" ` only when count > 1.
C8_KindAndRendering ==
  Built =>
    /\ \A i \in 1..Len(objects) : \A owned \in Names : \A pointer \in BOOLEAN :
         (objects[i].cls = "Class" /\ Holding(objects[i], owned, pointer) > 0) =>
           \E k \in EdgesFrom(objects[i], owned) :
              aggregation_list[k].link_type =
                (IF pointer THEN TXT_aggregation ELSE TXT_composition)
    /\ \A k \in 1..Len(aggregation_list) :
         LET e == aggregation_list[k]
         IN  /\ e.link_type \in {TXT_aggregation, TXT_composition}
             /\ RelRender(e) =
                  LinkName(e.parent, e.parent_namespace) \o <<" ">> \o
                  (IF e.count > 1 THEN <<"\"">> \o Decimal(e.count) \o <<"\"", " ">> ELSE <<>>) \o
                  (IF e.link_type = TXT_composition THEN <<"*", "-", "-">> ELSE <<"o", "-", "-">>) \o
                  <<" ">> \o LinkName(e.child, e.child_namespace) \o <<"\n">>

\* the base name is the plain or the qualified name of an object held
Resolves(base) ==
  \E p \in 1..Len(objects) :
     \/ objects[p].name = base
     \/ /\ objects[p].namespace # <<>>
        /\ objects[p].namespace \o ColonColon \o objects[p].name = base

\* the objects of the same name and namespace as obj
Same(obj) ==
  {i \in 1..Len(objects) :
     objects[i].name = obj.name /\ objects[i].namespace = obj.namespace}

RECURSIVE Sum(_, _)
Sum(f, S) ==
  IF S = {} THEN 0 ELSE LET x == CHOOSE y \in S : TRUE IN f[x] + Sum(f, S \ {x})

\* how many base names of each object resolve
ResolvingBases ==
  [i \in 1..Len(objects) |->
     IF objects[i].cls = "Class"
     THEN Cardinality({k \in 1..Len(objects[i].inheritance_list) :
                         Resolves(objects[i].inheritance_list[k])})
     ELSE 0]

\* C9: build_inheritance_list emits one Inheritance(base, derived) for each
\* base name of each class that resolves to an object of the diagram, none for
\* a base name that is not in the diagram, and the edge renders as
\* `Base <|-- Derived`.
C9_InheritanceEdges ==
  Built =>
    /\ \A i \in 1..Len(objects) :
         Cardinality({k \in 1..Len(inheritance_list) :
                        /\ inheritance_list[k].child = objects[i].name
                        /\ inheritance_list[k].child_namespace = objects[i].namespace}) =
         Sum(ResolvingBases, Same(objects[i]))
    /\ \A k \in 1..Len(inheritance_list) :
         LET e == inheritance_list[k]
         IN  /\ \E i \in 1..Len(objects) :
                  /\ objects[i].cls = "Class"
                  /\ objects[i].name = e.child
                  /\ objects[i].namespace = e.child_namespace
                  /\ \E b \in 1..Len(objects[i].inheritance_list) :
                       LET base == objects[i].inheritance_list[b]
                       IN  \/ base = e.parent
                           \/ /\ e.parent_namespace # <<>>
                              /\ base = e.parent_namespace \o ColonColon \o e.parent
             /\ \E p \in 1..Len(objects) :
                  /\ objects[p].name = e.parent
                  /\ objects[p].namespace = e.parent_namespace
             /\ RelRender(e) =
                  LinkName(e.parent, e.parent_namespace) \o <<" ", "<", "|", "-", "-", " ">> \o
                  LinkName(e.child, e.child_namespace) \o <<"\n">>

\* a class with a base that is not in the diagram, a base resolved by its
\* plain name and one resolved by its qualified name
C9_Witness ==
  /\ Built
  /\ \E i \in 1..Len(objects) :
       /\ objects[i].cls = "Class"
       /\ \E b \in 1..Len(objects[i].inheritance_list) :
            ~Resolves(objects[i].inheritance_list[b])
       /\ ResolvingBases[i] = 2
  /\ \E k \in 1..Len(inheritance_list) :
       RelRender(inheritance_list[k]) = <<"n", ".", "A", " ", "<", "|", "-", "-", " ", "C", "\n">>
  /\ \E k \in 1..Len(inheritance_list) :
       RelRender(inheritance_list[k]) = <<"A", " ", "<", "|", "-", "-", " ", "C", "\n">>

\* C10: an aggregation or composition edge (owner, T) is there only if some
\* variable of the owner has T as a whole word of its type; a type that names
\* no entity gives no edge, and `Foo` is not matched by `FooBar`.
C10_EdgeOnlyFromOwnVariable ==
  Built =>
    \A k \in 1..Len(aggregation_list) :
       LET e == aggregation_list[k]
       IN  /\ e.child \in Names
           /\ \E i \in 1..Len(objects) :
                /\ objects[i].name = e.parent
                /\ objects[i].namespace = e.parent_namespace
                /\ \E v \in 1..Len(Variables(objects[i])) :
                     WordSearch(e.child, Variables(objects[i])[v].type)

\* C11: with the dependency flag on, no dependency edge goes from a class to
\* itself: a method parameter whose type refers to the declaring class, as its
\* bare name or with `*`, `&` or `const`, gives no edge.
C11_NoSelfDependency ==
  (flag_dep /\ Built) =>
    \A k \in 1..Len(dependency_list) :
       LET e == dependency_list[k]
       IN  ~(e.parent = e.child /\ e.parent_namespace = e.child_namespace)

\* the enums declared inside the classes of a header text, each with the name
\* of its class: <<outer, enum name>>
NestedEnumsOf(text) ==
  LET classes == CppHeader(text, "string").classes
  IN  {<<classes[c][1], classes[c][2].enums[scope][e].name>> :
         <<c, scope, e>> \in
           {t \in (1..Len(classes)) \X {"private", "public", "protected"} \X (1..2) :
              t[3] <= Len(classes[t[1]][2].enums[t[2]])}}

\* C12: build_nesting_list emits Nesting(outer, inner) for every object whose
\* parent is set and resolves to an object of the diagram, and nothing else;
\* an enum declared in class Outer is held as `Outer::EnumName` with parent
\* `Outer`, and has one nesting edge, from Outer.
C12_NestingEdges ==
  Built =>
    /\ \A i \in 1..Len(objects) :
         Cardinality({k \in 1..Len(nesting_list) :
                        /\ nesting_list[k].child = objects[i].name
                        /\ nesting_list[k].child_namespace = objects[i].namespace}) =
         Cardinality({j \in Same(objects[i]) :
                        Truthy(objects[j].parent) /\ Resolves(objects[j].parent)})
    /\ \A k \in 1..Len(nesting_list) :
         LET e == nesting_list[k]
         IN  /\ e.link_type = TXT_nesting
             /\ \E i \in 1..Len(objects) :
                  /\ objects[i].name = e.child
                  /\ objects[i].namespace = e.child_namespace
                  /\ Truthy(objects[i].parent)
                  /\ \/ objects[i].parent = e.parent
                     \/ /\ e.parent_namespace # <<>>
                        /\ objects[i].parent = e.parent_namespace \o ColonColon \o e.parent
             /\ \E p \in 1..Len(objects) :
                  /\ objects[p].name = e.parent
                  /\ objects[p].namespace = e.parent_namespace
    /\ \A t \in 1..Len(log) : \A n \in NestedEnumsOf(log[t]) :
         LET inner == n[1] \o ColonColon \o n[2]
             held == {i \in 1..Len(objects) : objects[i].name = inner}
         IN  /\ held # {}
             /\ \A i \in held : objects[i].cls = "Enum" /\ objects[i].parent = n[1]
             /\ Cardinality({k \in 1..Len(nesting_list) :
                               /\ nesting_list[k].child = inner
                               /\ nesting_list[k].parent = n[1]}) = Cardinality(held)

\* build_relationship_lists() has run on objects some of which have no parent
\* and one of which is the enum E declared in class C
C12_Witness ==
  /\ lastOp.op = "build_relationship_lists"
  /\ \E i \in 1..Len(objects) : ~Truthy(objects[i].parent)
  /\ \E i \in 1..Len(objects) :
       /\ objects[i].name = <<"C", ":", ":", "E">>
       /\ objects[i].parent = <<"C">>
  /\ Len(nesting_list) = 1
  /\ RelRender(nesting_list[1]) = <<"C", " ", "+", "-", "-", " ", "C", ":", ":", "E", "\n">>

\* C13: sort_elements(); render() called twice in succession on a Diagram
\* that is not changed in between gives the same text twice, and the second
\* sort_elements() changes neither the order of the objects, nor the order of
\* their members, nor the order of the relationship lists.
C13_SortRenderIdempotent ==
  [][(lastOp.op = "sort_elements" /\ lastOp'.op = "sort_elements") =>
       /\ UNCHANGED <<objects, inheritance_list, aggregation_list, dependency_list,
                      nesting_list>>
       /\ render([objects |-> objects', inheritance_list |-> inheritance_list',
                  aggregation_list |-> aggregation_list',
                  dependency_list |-> dependency_list',
                  nesting_list |-> nesting_list', flag_dep |-> flag_dep']) =
            render(Self)]_vars

\* sort_elements() has run twice in succession on a Diagram that holds objects
\* with members, and two different inheritance edges of equal sort key
C13_Witness ==
  /\ lastOp.op = "sort_elements"
  /\ lastOp.again
  /\ \E i \in 1..Len(objects) : Len(objects[i].member_list) > 1
  /\ Len(inheritance_list) = 2
  /\ inheritance_list[1] # inheritance_list[2]
  /\ RelComparisonKeys(inheritance_list[1]) = RelComparisonKeys(inheritance_list[2])
  /\ aggregation_list # <<>>

\* C14: clear(), in any state, leaves the objects and the four relationship
\* lists empty and the dependency flag and the template as they were; a
\* create_from_* call made after clear() gives what it gives on a new Diagram.
C14_ClearResets ==
  [][/\ lastOp'.op = "clear" =>
          /\ objects' = <<>>
          /\ inheritance_list' = <<>>
          /\ aggregation_list' = <<>>
          /\ dependency_list' = <<>>
          /\ nesting_list' = <<>>
          /\ flag_dep' = flag_dep
          /\ template_file' = template_file
     /\ (lastOp.op = "clear" /\ lastOp'.op \in CreateOps /\ ~lastOp'.raised) =>
          /\ [objects |-> objects', inheritance_list |-> inheritance_list',
              aggregation_list |-> aggregation_list',
              dependency_list |-> dependency_list',
              nesting_list |-> nesting_list', flag_dep |-> flag_dep'] =
             FromStringList(flag_dep, log')
          /\ template_file' = template_file]_vars

\* a create_from_* call made right after clear(), on a Diagram made with the
\* dependency flag and a template of the caller, that gave objects and the
\* four kinds of relationship
C14_Witness ==
  /\ lastOp.op \in CreateOps
  /\ ~lastOp.raised
  /\ lastOp.after_clear
  /\ flag_dep
  /\ template_file = "custom.puml"
  /\ objects # <<>>
  /\ inheritance_list # <<>>
  /\ aggregation_list # <<>>
  /\ dependency_list # <<>>
  /\ nesting_list # <<>>

\* C16: when the parser fails on a source unit during create_from_* or
\* add_from_*, the error reaches the caller: the call is not retried, no later
\* source unit of its list is ingested, and build_relationship_lists and
\* sort_elements do not run in that call.  What the Diagram holds is then what
\* it held (nothing, for create_from_*) followed by the objects of the source
\* units before the failing one, in ingestion order, with the relationship
\* lists as they were (empty, for create_from_*).
C16_ParserErrorPropagates ==
  [][lastOp'.raised =>
       LET create == lastOp'.op \in CreateOps
           before == IF create THEN <<>> ELSE log
           ingested == SubSeq(log', Len(before) + 1, Len(log'))
       IN  /\ lastOp'.op \in CreateOps \cup AddOps
           /\ SubSeq(log', 1, Len(before)) = before
           /\ objects' = (IF create THEN <<>> ELSE objects) \o
                Flatten([i \in 1..Len(ingested) |-> ObjectsOf(ingested[i], "string")])
           /\ IF create
              THEN /\ inheritance_list' = <<>>
                   /\ aggregation_list' = <<>>
                   /\ dependency_list' = <<>>
                   /\ nesting_list' = <<>>
              ELSE UNCHANGED <<inheritance_list, aggregation_list, dependency_list,
                               nesting_list>>]_vars

\* a create_from_*_list call raised on its first source unit and left the one
\* after it out of the Diagram
C16_Witness ==
  /\ lastOp.raised
  /\ lastOp.skipped
  /\ lastOp.op \in {"create_from_file_list", "create_from_string_list"}
  /\ objects = <<>>
  /\ log = <<>>

\* the enums a header text declares, each as <<name, values>> with the values
\* in declaration order; an enum declared in a class is named `Outer::Name`
DeclaredEnums(text) ==
  LET parsed == CppHeader(text, "string")
      names(enum) == [v \in 1..Len(enum.values) |-> enum.values[v].name]
  IN  {<<parsed.enums[k].name, names(parsed.enums[k])>> : k \in 1..Len(parsed.enums)} \cup
      {<<parsed.classes[t[1]][1] \o ColonColon \o
           parsed.classes[t[1]][2].enums[t[2]][t[3]].name,
         names(parsed.classes[t[1]][2].enums[t[2]][t[3]])>> :
         t \in {u \in (1..Len(parsed.classes)) \X {"private", "public", "protected"} \X (1..2) :
                  u[3] <= Len(parsed.classes[u[1]][2].enums[u[2]])}}

\* an enum with its values one per line
EnumText(name, values) ==
  <<"e", "n", "u", "m", " ">> \o name \o <<" ", "{", "\n">> \o
  Flatten([v \in 1..Len(values) |-> <<"\t">> \o values[v] \o <<"\n">>]) \o <<"}", "\n">>

\* the enums of a sequence of objects render their values in declaration order
InDeclarationOrder(objs, text) ==
  \A i \in 1..Len(objs) :
     objs[i].cls = "Enum" =>
       \E enum \in DeclaredEnums(text) :
          /\ enum[1] = objs[i].name
          /\ ContainerRender(objs[i]) = EnumText(enum[1], enum[2])

\* C18: an enum renders its values one per line in declaration order, whatever
\* their names, when the Enum object is rendered as constructed and when it is
\* rendered in a Diagram built by create_from_string; an enum without a name
\* is rendered as `empty`.
C18_EnumValuesInDeclarationOrder ==
  /\ \A text \in DOMAIN headers : InDeclarationOrder(headers[text], text)
  /\ ContainerRender(Enum([namespace |-> <<>>,
                           values |-> <<[name |-> <<"B">>], [name |-> <<"A">>]>>], None)) =
       EnumText(<<"e", "m", "p", "t", "y">>, <<<<"B">>, <<"A">>>>)
  /\ (lastOp.op = "create_from_string" /\ ~lastOp.raised) =>
       InDeclarationOrder(objects, log[1])

\* C20: after a create_from_* call, build_relationship_lists() and then
\* sort_elements(), with nothing ingested in between, leave the four
\* relationship lists and the rendered output as the create_from_* call left
\* them.
C20_RebuildGivesSameLists ==
  (lastOp.op = "sort_elements" /\ lastOp.rebuilt) =>
    /\ Self = FromStringList(flag_dep, log)
    /\ render(Self) = render(FromStringList(flag_dep, log))

\* the elements of a list, each once, in the order of their first occurrence
RECURSIVE Distinct(_)
Distinct(l) ==
  IF l = <<>> THEN <<>>
  ELSE LET rest == Distinct(SubSeq(l, 1, Len(l) - 1))
       IN  IF InList(l[Len(l)], rest) THEN rest ELSE Append(rest, l[Len(l)])

\* the files the patterns of a CreatePlantUMLFile call stand for, each once
DistinctFiles(call) ==
  LET patterns == IF call.file_list.is_str THEN <<call.file_list.value>>
                  ELSE call.file_list.value
  IN  Distinct(Flatten([i \in 1..Len(patterns) |->
                          CASE patterns[i] = "[ab].hpp" -> <<"a.hpp", "b.hpp">>
                            [] patterns[i] \in HeaderFiles -> <<patterns[i]>>
                            [] OTHER -> <<>>]))

\* C15: CreatePlantUMLFile expands every pattern and drops the duplicates, so
\* a file that several patterns match is ingested once and the output is the
\* one for the list of the distinct files; the text is printed to the standard
\* output when no output file is given and written to the output file
\* otherwise.
C15_MainExpandsOnceAndOutputs ==
  (lastOp.op = "CreatePlantUMLFile" /\ ~lastOp.raised) =>
    LET call == calls[Len(calls)]
        files == DistinctFiles(call)
        text == render(FromFileList(flag_dep, files))
    IN  /\ Len(log) = Len(files)
        /\ \A i \in 1..Len(files) :
             Cardinality({t \in 1..Len(log) : log[t] = FileContent(files[i])}) = 1
        /\ Len(objects) = Len(FromFileList(flag_dep, files).objects)
        /\ IF call.output_file = <<>>
           THEN /\ stdout = <<text, <<"\n">>>>
                /\ \A f \in OutputFiles : file_text[f] = <<>>
           ELSE /\ file_text[call.output_file[1]] = <<text>>
                /\ stdout = <<>>

\* the members a class declaration declares, deleted ones included, each with
\* its kind and its scope
DeclaredMembers(decl) ==
  LET of_kind(kind, by_scope) ==
        Flatten([i \in 1..3 |->
                   [k \in 1..Len(by_scope[MEMBER_PROP_KEYS[i]]) |->
                      [kind |-> kind, scope |-> MEMBER_PROP_KEYS[i],
                       member |-> by_scope[MEMBER_PROP_KEYS[i]][k]]]])
  IN  of_kind("property", decl[2].properties) \o of_kind("method", decl[2].methods)

\* the declared members that are not flagged as deleted
KeptMembers(decl) ==
  SelectSeq(DeclaredMembers(decl),
            LAMBDA d : ~("deleted" \in DOMAIN d.member /\ d.member.deleted))

\* the line of a declared member, as the member rule words it
MemberLine(d) ==
  LET marker == CASE d.scope = "public" -> <<"+">>
                  [] d.scope = "private" -> <<"-">>
                  [] d.scope = "protected" -> <<"#">>
      static == IF d.member.static THEN <<"{", "s", "t", "a", "t", "i", "c", "}", " ">> ELSE <<>>
      m == d.member
  IN  IF d.kind = "property"
      THEN marker \o static \o m.name \o <<" ", ":", " ">> \o _cleanup_type(m.type) \o
           (IF m.array THEN <<"[", "]">> ELSE <<>>)
      ELSE LET type == _cleanup_type(m.returns) \o
                       (IF m.returns_pointer THEN <<"*">>
                        ELSE IF m.returns_reference THEN <<"&">> ELSE <<>>)
               param(q) == IF q.name = <<>> THEN _cleanup_type(q.type)
                           ELSE _cleanup_type(q.type) \o <<" ">> \o q.name
           IN  marker \o static \o
               (IF m.pure_virtual THEN <<"{", "a", "b", "s", "t", "r", "a", "c", "t", "}", " ">> ELSE <<>>) \o
               (IF m.destructor THEN <<"~">> ELSE <<>>) \o m.name \o
               <<"(">> \o Join(<<",", " ">>, [i \in 1..Len(m.parameters) |-> param(m.parameters[i])]) \o <<")">> \o
               (IF type # <<>> THEN <<" ", ":", " ">> \o type ELSE <<>>) \o
               (IF m.const THEN <<" ", "{", "q", "u", "e", "r", "y", "}">> ELSE <<>>)

\* how many times x is in the sequence l
Count(x, l) == Cardinality({i \in 1..Len(l) : l[i] = x})

\* the header line of a class declaration, as the header rule words it
HeaderLine(decl) ==
  (IF decl[2].abstract THEN <<"a", "b", "s", "t", "r", "a", "c", "t", " ">> ELSE <<>>) \o
  (IF decl[2].declaration_method \in {TXT_struct, TXT_union}
   THEN TXT_class ELSE decl[2].declaration_method) \o
  <<" ">> \o decl[1] \o
  (IF "template" \in DOMAIN decl[2] THEN <<" ", "<">> \o decl[2].template \o <<">">> ELSE <<>>) \o
  <<" ", "{">>

\* the members of a Class object are in sorted-member order: by type, then name
InSortedMemberOrder(obj) ==
  \A i, j \in 1..Len(obj.member_list) :
     i < j => ~KeyLt(MemberComparisonKeys(obj.member_list[j]),
                     MemberComparisonKeys(obj.member_list[i]))

\* the text has a header line, then the given lines after a tab each, then `}`
EntityTextIs(text, header, member_lines) ==
  LET lines == SplitLines(text)
  IN  /\ Len(lines) = Len(member_lines) + 2
      /\ lines[1] = header
      /\ \A i \in 1..Len(member_lines) : lines[i + 1] = <<"\t">> \o member_lines[i]
      /\ lines[Len(lines)] = <<"}">>
      /\ text[Len(text)] = "\n"

\* C17 as stated: a class declaration with N properties and M methods renders,
\* once its members are sorted, as a header line, N + M member lines after a
\* tab each, in sorted-member order, and a closing `}`; the header is
\* `abstract ` if abstract, the kind with struct and union as `class`, the
\* name, and ` <template>` if templated.
C17_HeaderAndAllMemberLines ==
  (entity_text # <<>> /\ entity_text[1].sorted) =>
    LET rendered == entity_text[1]
        member_lines == [i \in 1..Len(rendered.of.member_list) |->
                           MemberRender(rendered.of.member_list[i])]
    IN  /\ EntityTextIs(rendered.text, HeaderLine(declaration), member_lines)
        /\ InSortedMemberOrder(rendered.of)
        /\ Len(member_lines) = Len(DeclaredMembers(declaration))

\* C17 as the code has it: the member lines are those of the properties and
\* methods that are not flagged as deleted, one line each, in the order of the
\* member list, which is the sorted-member order once the members are sorted.
C17_HeaderAndKeptMemberLines ==
  entity_text # <<>> =>
    LET rendered == entity_text[1]
        member_lines == [i \in 1..Len(rendered.of.member_list) |->
                           MemberRender(rendered.of.member_list[i])]
        kept == [i \in 1..Len(KeptMembers(declaration)) |->
                   MemberLine(KeptMembers(declaration)[i])]
    IN  /\ EntityTextIs(rendered.text, HeaderLine(declaration), member_lines)
        /\ rendered.sorted => InSortedMemberOrder(rendered.of)
        /\ Len(member_lines) = Len(kept)
        /\ \A i \in 1..Len(kept) : Count(kept[i], member_lines) = Count(kept[i], kept)

\* a templated struct with a pure virtual method, a deleted method and other
\* members, rendered after its members were sorted into another order
C17_Witness ==
  /\ entity_text # <<>>
  /\ entity_text[1].sorted
  /\ declaration[2].declaration_method = TXT_struct
  /\ declaration[2].abstract
  /\ "template" \in DOMAIN declaration[2]
  /\ Len(DeclaredMembers(declaration)) = Len(VariablePool) + Len(MethodPool)
  /\ Len(KeptMembers(declaration)) < Len(DeclaredMembers(declaration))
  /\ entity_text[1].of.member_list # Class(declaration).member_list

\* C19: a class member renders as its visibility marker (`+`, `-`, `#`), then
\* `{static} ` if static, then its name (for a method `{abstract} ` if pure
\* virtual, the name after `~` for a destructor, and the `type name`
\* parameters in parentheses), then ` : type` only when the type or return
\* type is not empty (`*` or `&` after the type of a pointer or reference
\* return, `[]` after the type of an array), then ` {query}` if the method is
\* const.
C19_MemberLine ==
  /\ entity # <<>> =>
       \A i \in 1..Len(entity[1].obj.member_list) :
          \E k \in 1..Len(KeptMembers(declaration)) :
             MemberRender(entity[1].obj.member_list[i]) =
               MemberLine(KeptMembers(declaration)[k])
  /\ entity_text # <<>> =>
       \A k \in 1..Len(KeptMembers(declaration)) :
          Count(<<"\t">> \o MemberLine(KeptMembers(declaration)[k]),
                SplitLines(entity_text[1].text)) = 1

\* a class with every member of the pools has been rendered: its text has a
\* static variable, an array, a pure virtual const method that returns a
\* pointer, a method with two parameters and a destructor
C19_Witness ==
  /\ entity_text # <<>>
  /\ \A line \in {<<"-", "{", "s", "t", "a", "t", "i", "c", "}", " ", "p", "t", "r", " ", ":", " ", "B", "*">>, <<"#", "b", "u", "f", " ", ":", " ", "c", "h", "a", "r", "[", "]">>, <<"+", "m", "e", "m", "b", "e", "r", " ", ":", " ", "i", "n", "t">>,
                  <<"+", "f", "u", "n", "c", "(", "i", "n", "t", "*", " ", "a", ",", " ", "B", " ", "b", ")", " ", ":", " ", "i", "n", "t", "&">>, <<"#", "{", "s", "t", "a", "t", "i", "c", "}", " ", "c", "o", "u", "n", "t", "(", "i", "n", "t", "&", " ", "a", ")", " ", ":", " ", "v", "o", "i", "d">>,
                  <<"-", "{", "a", "b", "s", "t", "r", "a", "c", "t", "}", " ", "g", "e", "t", "(", ")", " ", ":", " ", "i", "n", "t", "*", " ", "{", "q", "u", "e", "r", "y", "}">>, <<"+", "~", "T", "e", "s", "t", "(", ")">>} :
       Count(<<"\t">> \o line, SplitLines(entity_text[1].text)) = 1

\* the sort keys as the specification words them
EntityKey(obj) == <<obj.container_type, obj.name>>

MemberKey(member) ==
  IF member.cls = "EnumValue" THEN <<member.name>> ELSE <<member.type, member.name>>

RelationKey(rel) == <<rel.parent, rel.child, rel.link_type>>

\* the list is in non-decreasing order of the key
NonDecreasing(list, key(_)) ==
  \A i \in 1..(Len(list) - 1) : ~KeyLt(key(list[i + 1]), key(list[i]))

\* the elements of the list that have the key k, in the order of the list
WithKey(list, key(_), k) == SelectSeq(list, LAMBDA x : key(x) = k)

\* after holds the elements of before, none added and none removed, those of
\* equal key in the order they had in before
StablePermutation(before, after, key(_)) ==
  /\ Len(after) = Len(before)
  /\ \A k \in {key(before[i]) : i \in 1..Len(before)} :
       WithKey(after, key, k) = WithKey(before, key, k)

\* an object without its members
Unmembered(obj) == [obj EXCEPT !.member_list = <<>>]

\* after holds the objects of before, those of equal key in the order they had
\* in before, each with its own members stably sorted
StablySortedObjects(before, after) ==
  /\ StablePermutation([i \in 1..Len(before) |-> Unmembered(before[i])],
                       [i \in 1..Len(after) |-> Unmembered(after[i])], EntityKey)
  /\ NonDecreasing(after, EntityKey)
  /\ \A k \in {EntityKey(before[i]) : i \in 1..Len(before)} :
       \A j \in 1..Len(WithKey(before, EntityKey, k)) :
         /\ StablePermutation(WithKey(before, EntityKey, k)[j].member_list,
                              WithKey(after, EntityKey, k)[j].member_list, MemberKey)
         /\ NonDecreasing(WithKey(after, EntityKey, k)[j].member_list, MemberKey)

StablySortedList(before, after) ==
  /\ StablePermutation(before, after, RelationKey)
  /\ NonDecreasing(after, RelationKey)

\* C21: sort_elements() leaves the objects in non-decreasing order of
\* (kind, name), every class before every enum, the members of each object in
\* non-decreasing order of (type, name), or of the name for enum values, and
\* each of the four relationship lists in non-decreasing order of (parent
\* name, child name, link kind); each sort is stable and only permutes.
C21_SortOrdersStably ==
  [][lastOp'.op = "sort_elements" =>
       /\ StablySortedObjects(objects, objects')
       /\ \A i, j \in 1..Len(objects') :
            (objects'[i].container_type = TXT_class /\
             objects'[j].container_type = TXT_enum) => i < j
       /\ StablySortedList(inheritance_list, inheritance_list')
       /\ StablySortedList(aggregation_list, aggregation_list')
       /\ StablySortedList(dependency_list, dependency_list')
       /\ StablySortedList(nesting_list, nesting_list')]_vars

\* sort_elements() has just put in order objects that were ingested in another
\* order, classes and enums among them, and two different inheritance edges of
\* equal sort key
C21_Witness ==
  /\ lastOp.op = "sort_elements"
  /\ log = <<"HB", "HA">>
  /\ path = "sorted"
  /\ \E i, j \in 1..Len(objects) :
       objects[i].container_type = TXT_class /\ objects[j].container_type = TXT_enum
  /\ \E i \in 1..Len(objects) : Len(objects[i].member_list) > 1
  /\ Len(inheritance_list) > 1
  /\ \E i \in 1..(Len(inheritance_list) - 1) :
       /\ inheritance_list[i] # inheritance_list[i + 1]
       /\ RelationKey(inheritance_list[i]) = RelationKey(inheritance_list[i + 1])

\* the namespaces a render tree shows: those that hold an object, and every
\* strict ancestor prefix of each
NamespacesShown(objs) ==
  LET held == {objs[i].namespace : i \in 1..Len(objs)} \ {<<>>}
      ancestors(ns) == {Join(ColonColon, SubSeq(SplitOn(ColonColon, ns), 1, k)) :
                          k \in 1..(Len(SplitOn(ColonColon, ns)) - 1)}
  IN  held \cup UNION {ancestors(ns) : ns \in held}

\* the parent prefix of a namespace, <<>> when it has none
ParentPrefix(ns) ==
  LET parts == SplitOn(ColonColon, ns)
  IN  Join(ColonColon, SubSeq(parts, 1, Len(parts) - 1))

ObjectNode(i) == [kind |-> "object", at |-> i, ns |-> <<>>]

NamespaceNode(ns) == [kind |-> "namespace", at |-> 0, ns |-> ns]

\* how many times the node is attached in the tree, over the top-level list
\* and every container
Occurrences(tree, node) ==
  Count(node, tree.objects_out) +
  Sum([ns \in DOMAIN tree.ns_obj_map |-> Count(node, tree.ns_obj_map[ns])],
      DOMAIN tree.ns_obj_map)

\* the node is attached once, in the container of the namespace, or in the
\* top-level list when the namespace is empty
AttachedOnceIn(tree, node, namespace) ==
  /\ Occurrences(tree, node) = 1
  /\ IF namespace = <<>>
     THEN Count(node, tree.objects_out) = 1
     ELSE /\ namespace \in DOMAIN tree.ns_obj_map
          /\ Count(node, tree.ns_obj_map[namespace]) = 1

\* C22: in the tree render() builds every object is attached exactly once, in
\* the container of its namespace or in the top-level list if it has none;
\* every namespace that holds an object and every strict ancestor prefix of it
\* has exactly one container, attached exactly once, to the container of its
\* parent prefix or to the top-level list if it has none; no lookup of a
\* container fails.
C22_RenderTree ==
  render_out # <<>> =>
    /\ render_out[1].error # "KeyError"
    /\ render_out[1].error = "" =>
         LET tree == render_out[1].tree[1]
         IN  /\ \A i \in 1..Len(objects) :
                  AttachedOnceIn(tree, ObjectNode(i), objects[i].namespace)
             /\ DOMAIN tree.ns_obj_map = NamespacesShown(objects)
             /\ \A ns \in NamespacesShown(objects) :
                  AttachedOnceIn(tree, NamespaceNode(ns), ParentPrefix(ns))
             /\ Len(tree.objects_out) +
                Sum([ns \in DOMAIN tree.ns_obj_map |-> Len(tree.ns_obj_map[ns])],
                    DOMAIN tree.ns_obj_map) =
                  Len(objects) + Cardinality(NamespacesShown(objects))

\* render() has returned on a Diagram with an object in a::b::c, an object in
\* b and an object in no namespace: a and a::b hold no object, the container
\* of a holds the container of a::b and nothing else
C22_Witness ==
  /\ render_out # <<>>
  /\ render_out[1].error = ""
  /\ Len(objects) = 3
  /\ objects[1].namespace = <<"a", ":", ":", "b", ":", ":", "c">>
  /\ objects[2].namespace = <<>>
  /\ objects[3].namespace = <<"b">>
  /\ render_out[1].tree[1].ns_obj_map[<<"a">>] = <<NamespaceNode(<<"a", ":", ":", "b">>)>>
  /\ render_out[1].tree[1].ns_obj_map[<<"a", ":", ":", "b">>] =
       <<NamespaceNode(<<"a", ":", ":", "b", ":", ":", "c">>)>>
  /\ render_out[1].tree[1].ns_obj_map[<<"a", ":", ":", "b", ":", ":", "c">>] = <<ObjectNode(1)>>
  /\ Len(render_out[1].tree[1].objects_out) = 3

\* the object a reference resolves to by the shared rule: the first object of
\* that plain name, else the object of that qualified name, else none
ResolvedByRule(ref) ==
  LET plain == {i \in 1..Len(objects) : objects[i].name = ref}
      qualified == {i \in 1..Len(objects) :
                      /\ objects[i].namespace # <<>>
                      /\ objects[i].namespace \o ColonColon \o objects[i].name = ref}
      first(S) == CHOOSE i \in S : \A j \in S : i <= j
  IN  IF plain # {} THEN <<objects[first(plain)]>>
      ELSE IF qualified # {} THEN <<objects[first(qualified)]>>
      ELSE <<>>

\* the edge of the given kind from the object a reference resolves to, if any
EdgeByRule(link_type, ref, obj) ==
  IF ResolvedByRule(ref) # <<>>
  THEN <<[link_type |-> link_type,
          parent |-> ResolvedByRule(ref)[1].name,
          child |-> obj.name,
          parent_namespace |-> ResolvedByRule(ref)[1].namespace,
          child_namespace |-> obj.namespace,
          count |-> 0]>>
  ELSE <<>>

\* the parameter types of the methods of an object, in order
ParameterTypes(obj) ==
  Flatten([m \in 1..Len(obj.member_list) |->
             IF obj.member_list[m].cls = "ClassMethod"
             THEN [p \in 1..Len(obj.member_list[m].param_list) |->
                     obj.member_list[m].param_list[p][1]]
             ELSE <<>>])

\* C23: the four builders resolve a reference by the plain name first and the
\* qualified name second: a reference equal to the plain name of an object
\* gives the edge to the first object of that name, a reference equal only to
\* a qualified name gives the edge to that object, and a reference that is
\* neither gives no edge; no builder raises.
C23_PlainThenQualified ==
  lastOp.op = "build_relationship_lists" =>
    /\ ~lastOp.raised
    /\ inheritance_list =
         Flatten([i \in 1..Len(objects) |->
                    IF objects[i].cls = "Class"
                    THEN Flatten([b \in 1..Len(objects[i].inheritance_list) |->
                                    EdgeByRule(TXT_inherit, objects[i].inheritance_list[b],
                                               objects[i])])
                    ELSE <<>>])
    /\ nesting_list =
         Flatten([i \in 1..Len(objects) |->
                    IF Truthy(objects[i].parent)
                    THEN EdgeByRule(TXT_nesting, objects[i].parent, objects[i])
                    ELSE <<>>])
    /\ \A k \in 1..Len(aggregation_list) :
         /\ ResolvedByRule(aggregation_list[k].parent) # <<>>
         /\ ResolvedByRule(aggregation_list[k].parent)[1].namespace =
              aggregation_list[k].parent_namespace
    /\ flag_dep =>
         dependency_list =
           Flatten([i \in 1..Len(objects) |->
                      IF objects[i].cls = "Class"
                      THEN Flatten([p \in 1..Len(ParameterTypes(objects[i])) |->
                                      IF ParameterTypes(objects[i])[p] # objects[i].name
                                      THEN EdgeByRule(TXT_dependency,
                                                      ParameterTypes(objects[i])[p], objects[i])
                                      ELSE <<>>])
                      ELSE <<>>])

\* the method parameters of the classes held, in the order of the objects, of
\* their members and of the parameters, each with the class that declares it
DeclaredParameters ==
  Flatten([i \in 1..Len(objects) |->
             IF objects[i].cls = "Class"
             THEN [p \in 1..Len(ParameterTypes(objects[i])) |->
                     [type |-> ParameterTypes(objects[i])[p], class |-> objects[i]]]
             ELSE <<>>])

\* the objects whose name is found somewhere in the text, by their place
FoundIn(text) == {i \in 1..Len(objects) : Contains(objects[i].name, text)}

\* the one edge a parameter may give: from the first object whose name is
\* found in its type to the class that declares it
EdgeOfParameter(param) ==
  LET first == CHOOSE i \in FoundIn(param.type) : \A j \in FoundIn(param.type) : i <= j
  IN  [link_type |-> TXT_dependency,
       parent |-> objects[first].name,
       child |-> param.class.name,
       parent_namespace |-> objects[first].namespace,
       child_namespace |-> param.class.namespace,
       count |-> 0]

\* C24: with the dependency flag enabled each method parameter gives at most
\* one Dependency edge; the used type is the first object, in the order the
\* objects are in, whose name is found anywhere in the type text of the
\* parameter (so `A` is found in `AB`), and the using type is the class that
\* declares the method.
C24_FirstMatchPerParameter ==
  (lastOp.op = "build_relationship_lists" /\ flag_dep) =>
    \E gives \in [1..Len(DeclaredParameters) -> BOOLEAN] :
       /\ \A p \in 1..Len(DeclaredParameters) :
            gives[p] => FoundIn(DeclaredParameters[p].type) # {}
       /\ dependency_list =
            Flatten([p \in 1..Len(DeclaredParameters) |->
                       IF gives[p] THEN <<EdgeOfParameter(DeclaredParameters[p])>>
                       ELSE <<>>])

\* the lists were built, with the flag enabled, from the objects of a.hpp and
\* b.hpp in the order they were ingested in: the parameter `AB a` of class C
\* gave the edge to class B, the first object whose name is found in `AB`,
\* though class AB is held too
C24_Witness ==
  /\ lastOp.op = "build_relationship_lists"
  /\ flag_dep
  /\ log = <<"HA", "HB">>
  /\ \E i \in 1..Len(objects) : objects[i].name = <<"A", "B">>
  /\ \E p \in 1..Len(DeclaredParameters) : DeclaredParameters[p].type = <<"A", "B">>
  /\ \E k \in 1..Len(dependency_list) :
       RelRender(dependency_list[k]) = <<"B", " ", "<", ".", ".", " ", "C", "\n">>
  /\ \A k \in 1..Len(dependency_list) : dependency_list[k].parent # <<"A", "B">>

\* the methods of the objects held
MethodsHeld ==
  Flatten([i \in 1..Len(objects) |->
             SelectSeq(objects[i].member_list, LAMBDA m : m.cls = "ClassMethod")])

\* C25: no method of an object of a Diagram is both abstract and static, so
\* the assertion made when a method is rendered holds and render() does not
\* fail on it.
C25_NeverAbstractAndStatic ==
  /\ \A m \in 1..Len(MethodsHeld) : ~(MethodsHeld[m].abstract /\ MethodsHeld[m].static)
  /\ render_out # <<>> => render_out[1].error # "AssertionError"

\* the declared name without `<` and `>`, each `-` turned into `_`
NameAsStated(declared) ==
  LET kept == SelectSeq(declared, LAMBDA c : c \notin {"<", ">"})
  IN  [k \in 1..Len(kept) |-> IF kept[k] = "-" THEN "_" ELSE kept[k]]

\* C26: no name of an object of a Diagram holds `<` or `>`, and every `-` of
\* the declared name is replaced by `_`; so it is for a nested enum, whose
\* name is rewritten to `OuterName::EnumName`.
C26_NamesAreClean ==
  /\ \A i \in 1..Len(objects) :
       \A k \in 1..Len(objects[i].name) : objects[i].name[k] \notin {"<", ">", "-"}
  /\ objects # <<>> =>
       /\ objects[1].name = NameAsStated(declaration[1])
       /\ \A i \in 2..Len(objects) :
            /\ objects[i].cls = "Enum"
            /\ objects[i].name = NameAsStated(declaration[1]) \o <<":", ":", "E">>

\* a Diagram holds the struct the parser names <anon-struct-1> and its nested
\* enum E
C26_Witness ==
  /\ Len(objects) = 2
  /\ declaration[1] = <<"<", "a", "n", "o", "n", "-", "s", "t", "r", "u", "c", "t", "-", "1", ">">>
  /\ objects[1].name = <<"a", "n", "o", "n", "_", "s", "t", "r", "u", "c", "t", "_", "1">>
  /\ objects[2].name = <<"a", "n", "o", "n", "_", "s", "t", "r", "u", "c", "t", "_", "1", ":", ":", "E">>
  /\ objects[2].parent = objects[1].name

\* C27: _cleanup_type is idempotent: for every type text, with tabs, newlines,
\* runs of spaces, '*', '&', '<' and '>' anywhere in it, cleaning what
\* _cleanup_type returned gives the same text again
C27_CleanupTypeIdempotent ==
  Len(type_out) = 2 => type_out[2] = type_out[1]

\* a type text with a tab and a '<' in it, which the whitespace collapse and
\* then a later substitution change, has been cleaned twice
C27_Witness ==
  /\ Len(type_out) = 2
  /\ \E i \in 1..Len(type_str) : type_str[i] = "\t"
  /\ \E i \in 1..Len(type_str) : type_str[i] = "<"
  /\ CollapseSpace(type_str) # type_str
  /\ type_out[1] # CollapseSpace(type_str)

\* the relationships of the four lists
RelationshipsHeld ==
  inheritance_list \o aggregation_list \o dependency_list \o nesting_list

\* an entity of that name and namespace is in the entity collection
EntityHeld(name, namespace) ==
  \E i \in 1..Len(objects) :
    objects[i].name = name /\ objects[i].namespace = namespace

\* C28: in every state reachable by create_from_*, add_from_*,
\* build_relationship_lists, sort_elements, render and clear calls, both
\* endpoints of each relationship of the four lists name an entity that is in
\* the entity collection, and the namespace recorded for the endpoint is that
\* entity's namespace
C28_EndpointsAreHeld ==
  \A i \in 1..Len(RelationshipsHeld) :
    LET rel == RelationshipsHeld[i]
    IN  /\ EntityHeld(rel.parent, rel.parent_namespace)
        /\ EntityHeld(rel.child, rel.child_namespace)

\* render() has returned on a Diagram that a failed add_from_*_list left with
\* a relationship between entities of two namespaces
C28_Witness ==
  /\ render_out # <<>>
  /\ lastOp.raised
  /\ lastOp.op \in {"add_from_file_list", "add_from_string_list"}
  /\ \E i \in 1..Len(RelationshipsHeld) :
       RelationshipsHeld[i].parent_namespace # RelationshipsHeld[i].child_namespace

\* C29: render() is read-only on the Diagram: a call leaves the entity
\* collection (membership, order, each entity's members, name and namespace)
\* and the four relationship lists as they were, also when the template lookup
\* fails, and it builds the namespace containers afresh: a call that follows
\* another gives the same containers with the same content
C29_RenderIsReadOnly ==
  [][render_out' # <<>> =>
       /\ objects' = objects
       /\ inheritance_list' = inheritance_list
       /\ aggregation_list' = aggregation_list
       /\ dependency_list' = dependency_list
       /\ nesting_list' = nesting_list
       /\ (render_out # <<>> /\ render_out[1].error = "" /\ render_out'[1].error = "") =>
            /\ render_out'[1].tree = render_out[1].tree
            /\ render_out'[1].text = render_out[1].text]_vars

\* render() has placed entities in namespace containers on a Diagram with
\* unsorted entities and a relationship, and the next render() failed on the
\* template lookup
C29_Witness ==
  /\ Len(render_out) = 2
  /\ render_out[1].error = "TemplateNotFound"
  /\ render_out[2].error = ""
  /\ DOMAIN render_out[2].tree[1].ns_obj_map # {}
  /\ RelationshipsHeld # <<>>
  /\ sort_elements(Self).objects # objects

\* the calls that ingest a list of source units
ListOps ==
  {"create_from_file_list", "create_from_string_list",
   "add_from_file_list", "add_from_string_list"}

\* C30: when the ingestion of a list raises on its k-th source, the Diagram is
\* left holding the entities of the sources 1..k-1, not rolled back, and the
\* relationship lists are not rebuilt: they are empty after a failed
\* create_from_*_list, which had cleared what was there, and unchanged after a
\* failed add_from_*_list.  A clear() that follows leaves what a new Diagram
\* holds, and the create_from_* call after it gives what it gives on a new
\* Diagram.
C30_FailedListIngestion ==
  [][/\ (lastOp'.raised /\ lastOp'.op \in ListOps) =>
          LET create == lastOp'.op \in CreateOps
              held == IF create THEN <<>> ELSE objects
              sources == SubSeq(log', (IF create THEN 0 ELSE Len(log)) + 1, Len(log'))
          IN  /\ \A i \in 1..Len(sources) : sources[i] # "Hbad"
              /\ objects' = held \o
                   Flatten([i \in 1..Len(sources) |-> ObjectsOf(sources[i], "string")])
              /\ inheritance_list' = (IF create THEN <<>> ELSE inheritance_list)
              /\ aggregation_list' = (IF create THEN <<>> ELSE aggregation_list)
              /\ dependency_list' = (IF create THEN <<>> ELSE dependency_list)
              /\ nesting_list' = (IF create THEN <<>> ELSE nesting_list)
     /\ (lastOp.raised /\ lastOp.op \in ListOps /\ lastOp'.op = "clear") =>
          /\ [objects |-> objects', inheritance_list |-> inheritance_list',
              aggregation_list |-> aggregation_list',
              dependency_list |-> dependency_list',
              nesting_list |-> nesting_list', flag_dep |-> flag_dep'] =
             NewDiagram(flag_dep)
          /\ template_file' = template_file
     /\ (lastOp.op = "clear" /\ lastOp'.op \in CreateOps /\ ~lastOp'.raised) =>
          /\ objects' = FromStringList(flag_dep, log').objects
          /\ inheritance_list' = FromStringList(flag_dep, log').inheritance_list
          /\ aggregation_list' = FromStringList(flag_dep, log').aggregation_list
          /\ dependency_list' = FromStringList(flag_dep, log').dependency_list
          /\ nesting_list' = FromStringList(flag_dep, log').nesting_list]_vars

\* an add_from_*_list call raised on its second source and left the entities
\* of the first in the Diagram, with no relationship built for them
C30_Witness ==
  /\ lastOp.raised
  /\ lastOp.op \in {"add_from_file_list", "add_from_string_list"}
  /\ Len(log) = 1
  /\ objects = ObjectsOf(log[1], "string")
  /\ Len(objects) > 1
  /\ RelationshipsHeld = <<>>
  /\ build_relationship_lists(Self).inheritance_list # <<>>

=============================================================================
